---- MODULE Spec2Model ----
(***************************************************************************)
(* State-machine model of aiogzip's binary gzip stream                     *)
(* (src/aiogzip/_binary.py, AsyncGzipBinaryFile) and of the close path of  *)
(* the text wrapper (src/aiogzip/_text.py, AsyncGzipTextFile).             *)
(*                                                                         *)
(* The transport holds a sequence of abstract compressed bytes ("tokens"). *)
(* The zlib engine is an external collaborator; it is modelled by what     *)
(* CPython's zlib does on those tokens (decompressobj / compressobj).      *)
(***************************************************************************)
EXTENDS Integers, Sequences, FiniteSets, TLC

(* ------------------------------ bounds --------------------------------- *)
MaxChunk == 3          \* transport chunk sizes 1..MaxChunk are explored
MaxRead == 2           \* read/peek/readline sizes 1..MaxRead (plus 0 and -1)
MaxSeek == 3           \* absolute seek targets 0..MaxSeek
MaxInput == 2          \* a write-mode stream accepts at most MaxInput bytes
MaxEnters == 2         \* __aenter__ is called at most MaxEnters times
MaxIoFail == 3         \* the 1st..MaxIoFail-th transport call of an operation may fail
MaxFaults == 1         \* faults injected in one run
MaxFile == 5           \* a write-mode transport holds at most MaxFile bytes
MaxCache == 2          \* MAX_COOKIE_CACHE_SIZE is set to 1..MaxCache
MaxCookie == 2         \* text seek is called with the cookies 0..MaxCookie
                       \* and with those in the cache
MaxMode == 3           \* mode strings of 0..MaxMode characters are parsed
HdrLen == 2            \* number of header bytes of a member in the model
CrcMod == 5            \* the model checksum is taken modulo CrcMod
SizeMod == 2           \* stands for 2^32 in the trailer's size field

(* --------------------------- program constants ------------------------- *)
NL == 10                           \* b"\n"
BUFFER_COMPACTION_THRESHOLD == 1   \* 64 KiB in the source, scaled down
ZERO_CHUNK == 1                    \* 1024 in the source, scaled down
SEEK_SET == 0
SEEK_CUR == 1
SEEK_END == 2
CR == 13                           \* b"\r"
LEAD == 200      \* first byte of the two-byte character of the model
CONT == 150      \* its second byte
WIDE == 300      \* the character the two bytes decode to

Min(a, b) == IF a < b THEN a ELSE b

\* F applied to the value of v, which is computed once.
Bind(v, F(_)) == CHOOSE r \in { F(x) : x \in {v} } : TRUE

(* ------------------------- transport tokens ---------------------------- *)
\* One compressed byte: kind k, the payload bytes d it inflates to, and a
\* number n (header byte index, trailer CRC or trailer size).
Tok(k, d, n) == [k |-> k, d |-> d, n |-> n]
ZeroByte == Tok("Z", <<>>, 0)

\* zlib.crc32(buffer, crc): an order-sensitive running checksum.
RECURSIVE crc32(_, _)
crc32(buf, c) ==
  IF buf = <<>> THEN c
  ELSE crc32(Tail(buf), (c * 2 + Head(buf) + 1) % CrcMod)


(* ------------------------------ zlib engine ---------------------------- *)
\* zlib.decompressobj(wbits=GZIP_WBITS): a fresh gzip decompressor.
\* zlib.compressobj(...): a fresh raw-deflate compressor.
\* One record shape serves both; kind tells which one it is.
NoEngine == [kind |-> "none", st |-> "none", h |-> 0, crc |-> 0, size |-> 0,
             unused |-> <<>>, pending |-> <<>>]
decompressobj == [NoEngine EXCEPT !.kind = "inflate", !.st = "hdr"]
compressobj == [NoEngine EXCEPT !.kind = "deflate", !.st = "open"]

\* The decompressor takes one compressed byte t: r.e is the engine after it,
\* r.out the payload it produced, r.err whether zlib.error is raised.
\* After the end of the member every further byte is kept in unused_data.
InflateByte(e, t) ==
  CASE e.st = "hdr" ->
         IF t.k = "H" /\ t.n = e.h + 1
         THEN [e |-> [e EXCEPT !.h = e.h + 1,
                               !.st = IF e.h + 1 = HdrLen THEN "body" ELSE "hdr"],
               out |-> <<>>, err |-> FALSE]
         ELSE [e |-> e, out |-> <<>>, err |-> TRUE]
    [] e.st = "body" ->
         IF t.k \in {"D", "E"}
         THEN [e |-> [e EXCEPT !.crc = crc32(t.d, e.crc),
                               !.size = e.size + Len(t.d),
                               !.st = IF t.k = "E" THEN "tc" ELSE "body"],
               out |-> t.d, err |-> FALSE]
         ELSE [e |-> e, out |-> <<>>, err |-> TRUE]
    [] e.st = "tc" ->
         IF t.k = "Tc" /\ t.n = e.crc
         THEN [e |-> [e EXCEPT !.st = "ts"], out |-> <<>>, err |-> FALSE]
         ELSE [e |-> e, out |-> <<>>, err |-> TRUE]
    [] e.st = "ts" ->
         IF t.k = "Ts" /\ t.n = e.size % SizeMod
         THEN [e |-> [e EXCEPT !.st = "end"], out |-> <<>>, err |-> FALSE]
         ELSE [e |-> e, out |-> <<>>, err |-> TRUE]
    [] OTHER ->
         [e |-> [e EXCEPT !.unused = Append(e.unused, t)],
          out |-> <<>>, err |-> FALSE]

\* engine.decompress(data): all of data goes through the engine.
RECURSIVE decompress(_, _)
decompress(e, data) ==
  IF data = <<>> THEN [e |-> e, out |-> <<>>, err |-> FALSE]
  ELSE Bind(InflateByte(e, Head(data)), LAMBDA r :
       IF r.err THEN r
       ELSE Bind(decompress(r.e, Tail(data)), LAMBDA q :
            [e |-> q.e, out |-> r.out \o q.out, err |-> q.err]))

\* Mutation of lstrip: zero padding is not stripped.
lstrip_nothing(data) == data

\* unused.lstrip(b"\x00")
RECURSIVE lstrip(_)
lstrip(data) ==
  IF data # <<>> /\ Head(data).k = "Z" THEN lstrip(Tail(data)) ELSE data

\* One gzip member holding the body bytes `body` (each a sequence of the
\* payload bytes it inflates to; the last one closes the deflate stream).
RECURSIVE Flatten(_)
Flatten(ss) == IF ss = <<>> THEN <<>> ELSE Head(ss) \o Flatten(Tail(ss))

Header == [i \in 1..HdrLen |-> Tok("H", <<>>, i)]
\* Mutation of _build_gzip_trailer: the size is not reduced.
_build_gzip_trailer_unreduced(c, size) ==
  << Tok("Tc", <<>>, c), Tok("Ts", <<>>, size) >>

\* struct.pack("<II", crc & 0xFFFFFFFF, size & 0xFFFFFFFF)
_build_gzip_trailer(c, size) ==
  << Tok("Tc", <<>>, c), Tok("Ts", <<>>, size % SizeMod) >>
Member(body) ==
  Header
  \o [i \in 1..Len(body) |->
        Tok(IF i = Len(body) THEN "E" ELSE "D", body[i], 0)]
  \o _build_gzip_trailer(crc32(Flatten(body), 0), Len(Flatten(body)))

(* ---------------------------- header probe ---------------------------- *)
GZIP_FLAG_FHCRC == 2
GZIP_FLAG_FEXTRA == 4
GZIP_FLAG_FNAME == 8
GZIP_FLAG_FCOMMENT == 16
GZIP_METHOD_DEFLATE == 8
GZIP_OS_UNKNOWN == 255
FIXED_HEADER == 10
\* The value of "no size", "no limit", "no mtime".
None == 99

\* flags & bit
HasFlag(flags, bit) == (flags \div bit) % 2 = 1
\* struct.unpack("<I", bs)[0] and struct.unpack("<H", bs)[0]
RECURSIVE unpack(_)
unpack(bs) == IF bs = <<>> THEN 0 ELSE Head(bs) + 256 * unpack(Tail(bs))
\* struct.pack("<I", v)
pack4(v) == << v % 256, (v \div 256) % 256, (v \div 65536) % 256,
              (v \div 16777216) % 256 >>
\* data.find(b"\x00", pos): zero-based, -1 if there is none.
RECURSIVE find0(_, _)
find0(data, pos) ==
  IF pos >= Len(data) THEN -1
  ELSE IF data[pos + 1] = 0 THEN pos
  ELSE find0(data, pos + 1)

\* Mutation of SkipExtra: the length of the extra field is not added.
SkipExtra_length_only(data, flags, pos) ==
  IF ~HasFlag(flags, GZIP_FLAG_FEXTRA) THEN pos
  ELSE IF Len(data) < pos + 2 THEN -1
  ELSE pos + 2

\* The FEXTRA step: the position after the field, -1 if data ends before.
SkipExtra(data, flags, pos) ==
  IF ~HasFlag(flags, GZIP_FLAG_FEXTRA) THEN pos
  ELSE IF Len(data) < pos + 2 THEN -1
  ELSE Bind(pos + 2 + unpack(SubSeq(data, pos + 1, pos + 2)), LAMBDA p :
       IF Len(data) < p THEN -1 ELSE p)

\* The FNAME and FCOMMENT steps: the position after the terminator.
SkipString(data, present, pos) ==
  IF pos = -1 \/ ~present THEN pos
  ELSE Bind(find0(data, pos), LAMBDA terminator :
       IF terminator = -1 THEN -1 ELSE terminator + 1)

\* The FHCRC step.
SkipCrc(data, present, pos) ==
  IF pos = -1 \/ ~present THEN pos
  ELSE IF Len(data) < pos + 2 THEN -1 ELSE pos

\* _try_parse_gzip_header_mtime(data): <<mtime, complete>>
_try_parse_gzip_header_mtime(data) ==
  IF Len(data) < FIXED_HEADER THEN <<None, FALSE>>
  ELSE IF SubSeq(data, 1, 2) # <<31, 139>> \/ data[3] # GZIP_METHOD_DEFLATE
  THEN <<None, TRUE>>
  ELSE
    LET flags == data[4]
        mtime == unpack(SubSeq(data, 5, 8))
        pos == SkipCrc(data, HasFlag(flags, GZIP_FLAG_FHCRC),
                 SkipString(data, HasFlag(flags, GZIP_FLAG_FCOMMENT),
                   SkipString(data, HasFlag(flags, GZIP_FLAG_FNAME),
                     SkipExtra(data, flags, FIXED_HEADER))))
    IN IF pos = -1 THEN <<None, FALSE>> ELSE <<mtime, TRUE>>

\* A gzip header with the given flags and fields (RFC 1952): the fixed ten
\* bytes, then the fields the flags announce.
GzipHeader(flags, mtime, extra, name, comment, hcrc) ==
  <<31, 139, GZIP_METHOD_DEFLATE, flags>> \o pack4(mtime)
  \o <<0, GZIP_OS_UNKNOWN>>
  \o (IF HasFlag(flags, GZIP_FLAG_FEXTRA)
      THEN <<Len(extra), 0>> \o extra ELSE <<>>)
  \o (IF HasFlag(flags, GZIP_FLAG_FNAME) THEN name \o <<0>> ELSE <<>>)
  \o (IF HasFlag(flags, GZIP_FLAG_FCOMMENT) THEN comment \o <<0>> ELSE <<>>)
  \o (IF HasFlag(flags, GZIP_FLAG_FHCRC) THEN hcrc ELSE <<>>)

\* The statements of _fill_buffer that assign _mtime and
\* _header_probe_buffer, for a non-empty compressed_chunk; p.buf is the
\* buffer and p.mtime the field.
ProbeChunk(p, compressed_chunk) ==
  IF p.mtime = None /\ compressed_chunk # <<>>
  THEN Bind(_try_parse_gzip_header_mtime(p.buf \o compressed_chunk),
            LAMBDA r :
       IF r[2] THEN [p EXCEPT !.mtime = r[1], !.buf = <<>>]
       ELSE [p EXCEPT !.buf = p.buf \o compressed_chunk])
  ELSE p

(* ---------------------------- construction ---------------------------- *)
\* One character of a mode string is consumed; st.err names the first
\* complaint, after which the remaining characters are not looked at.
\* Mutation of ParseStep: a second operation character replaces the first.
ParseStep_last_op(st, ch) ==
  IF st.err # "none" THEN st
  ELSE IF ch \in {"r", "w", "a", "x"} THEN [st EXCEPT !.op = ch]
  ELSE IF ch = "b" THEN [st EXCEPT !.saw_b = TRUE]
  ELSE IF ch = "t" THEN [st EXCEPT !.saw_t = TRUE]
  ELSE IF ch = "+" THEN [st EXCEPT !.plus = TRUE]
  ELSE [st EXCEPT !.err = "character"]

\* The body of "for ch in mode" in _parse_mode_tokens.
ParseStep(st, ch) ==
  IF st.err # "none" THEN st
  ELSE IF ch \in {"r", "w", "a", "x"}
  THEN IF st.op # "none" THEN [st EXCEPT !.err = "one of r, w, a, or x"]
       ELSE [st EXCEPT !.op = ch]
  ELSE IF ch = "b"
  THEN IF st.saw_b THEN [st EXCEPT !.err = "b more than once"]
       ELSE [st EXCEPT !.saw_b = TRUE]
  ELSE IF ch = "t"
  THEN IF st.saw_t THEN [st EXCEPT !.err = "t more than once"]
       ELSE [st EXCEPT !.saw_t = TRUE]
  ELSE IF ch = "+"
  THEN IF st.plus THEN [st EXCEPT !.err = "+ more than once"]
       ELSE [st EXCEPT !.plus = TRUE]
  ELSE [st EXCEPT !.err = "character"]

RECURSIVE ParseLoop(_, _)
ParseLoop(st, rest) ==
  IF rest = <<>> THEN st ELSE ParseLoop(ParseStep(st, Head(rest)), Tail(rest))

\* _parse_mode_tokens(mode): (op, saw_b, saw_t, plus), or err, the ValueError
\* it raises.
_parse_mode_tokens(m) ==
  IF m = <<>> THEN [err |-> "empty", op |-> "none", saw_b |-> FALSE,
                    saw_t |-> FALSE, plus |-> FALSE]
  ELSE Bind(ParseLoop([err |-> "none", op |-> "none", saw_b |-> FALSE,
                       saw_t |-> FALSE, plus |-> FALSE], m), LAMBDA st :
       IF st.err # "none" THEN st
       ELSE IF st.op = "none" THEN [st EXCEPT !.err = "must include"]
       ELSE IF st.saw_b /\ st.saw_t THEN [st EXCEPT !.err = "both b and t"]
       ELSE st)

\* _validate_compresslevel(compresslevel): TRUE if it returns.
_validate_compresslevel(lvl) == -1 <= lvl /\ lvl <= 9

\* __init__ of the binary (cls = "binary") and of the text stream, with a
\* file name, a positive chunk size and valid text parameters: exc is the
\* exception it raises, op the _mode_op of the object it leaves.
init(cls, m, lvl) ==
  Bind(_parse_mode_tokens(m), LAMBDA r :
  IF r.err # "none" THEN [exc |-> "ValueError", op |-> "none"]
  ELSE IF cls = "binary" /\ r.saw_t THEN [exc |-> "ValueError", op |-> "none"]
  ELSE IF cls = "text" /\ r.saw_b THEN [exc |-> "ValueError", op |-> "none"]
  ELSE IF r.op \in {"w", "a", "x"} /\ ~_validate_compresslevel(lvl)
  THEN [exc |-> "ValueError", op |-> "none"]
  ELSE [exc |-> "none", op |-> r.op])

(* ------------------------------- state --------------------------------- *)
VARIABLES
  mode,           \* the mode string the constructor was called with
  compresslevel,  \* the compresslevel it was called with
  init_exc,       \* the exception the constructor raised, "none" if it
                  \* returned, "pending" before it is called
  mode_op,        \* self._mode_op
  chunk_size,     \* self._chunk_size
  external,       \* a transport was supplied (self._external_file is not None)
  closefd,        \* self._closefd
  seekable,       \* the transport has a seek method
  file,           \* "none" while self._file is None, else "set"
  owns_file,      \* self._owns_file
  engine,         \* self._engine
  buffer,         \* self._buffer
  buffer_offset,  \* self._buffer_offset
  is_closed,      \* self._is_closed
  eof,            \* self._eof
  crc,            \* self._crc
  input_size,     \* self._input_size
  position,       \* self._position
  tdata,          \* the bytes the transport holds
  tpos,           \* the transport's read offset
  topen,          \* the transport handle is open
  tcloses,        \* calls of the transport's close so far
  payload,        \* read mode: the payload of the stream the transport holds
  fkind,          \* read mode: "valid" or "truncated" stream
  lastOp,         \* the operation that ran last
  lastExc,        \* the exception it raised, "none" if it returned
  lastErr,        \* who raised first, what, and the __cause__ of lastExc
  lastRet,        \* the bytes it returned
  lastN,          \* the number it returned (-1 if none)
  lastArg,        \* its size, limit or hint argument; seek: the absolute
                  \* target; close: 1 if the stream was closed already
  lastWhence,     \* seek: its whence argument (SEEK_SET for the others)
  lastPos,        \* what tell() returned before the operation ran
  got,            \* the bytes (text: the characters) these calls returned
                  \* since the stream was entered
  onlyReads,      \* only read(n), n # 0, ran since the stream was entered
                  \* (a text stream: only text read, readline and __anext__)
  faulted,        \* a transport or engine fault was injected so far
  enters,         \* calls of __aenter__ so far
  track,          \* got and onlyReads are recorded in this run
  written,        \* write mode: the bytes accepted by write() since open
  budget,         \* faults that may still be injected
  layer,          \* "binary": the caller holds an AsyncGzipBinaryFile;
                  \* "text": an AsyncGzipTextFile wrapping one
  newline,        \* text: self._newline ("None", "", "\n", "\r", "\r\n")
  binary_file,    \* text: "none" while self._binary_file is None, else "set"
  t_is_closed,    \* text: self._is_closed
  decoder,        \* text: the bytes the incremental decoder holds back
  text_buffer,    \* text: self._text_buffer
  trailing_cr,    \* text: self._trailing_cr
  cookie_cache,   \* text: self._cookie_cache, its entries in insertion order
  MAX_COOKIE_CACHE_SIZE,  \* text: the class attribute of that name
  told,           \* text: for the cookies in the cache, the text that was
                  \* still to be read when a tell() returned the cookie
  streams,        \* two instances: the fields and the transport of each
  running,        \* two instances: the operation each is suspended in
  alone,          \* two instances: each as its operations leave it when
                  \* every one of them runs to its end without interruption
  probe           \* the header probe: the stream's bytes, the prefix tried,
                  \* _header_probe_buffer and _mtime

cfgvars == <<mode, compresslevel, init_exc, mode_op, chunk_size, external, closefd, seekable, payload, fkind,
             layer, newline, MAX_COOKIE_CACHE_SIZE>>
objvars == <<file, owns_file, engine, buffer, buffer_offset, is_closed, eof,
             crc, input_size, position>>
trvars == <<tdata, tpos, topen, tcloses>>
histvars == <<lastOp, lastExc, lastErr, lastRet, lastN, lastArg, lastWhence, lastPos,
              got, onlyReads, faulted, enters, track, written, budget, told>>
textvars == <<binary_file, t_is_closed, decoder, text_buffer, trailing_cr,
              cookie_cache>>
pairvars == <<streams, running, alone>>
vars == <<cfgvars, objvars, trvars, histvars, textvars, pairvars, probe>>

_writing_mode == mode_op \in {"w", "a", "x"}

\* The object and its transport as one record, as an operation sees them.
\* io counts the transport calls of the running operation; the ioFail-th
\* one raises OSError (0: none does).  engFail: the compressor's call raises
\* zlib.error; decFail: the decompressor's flush() at the end of the
\* transport does.  origin is who raised the first exception of the running
\* operation (the stream itself if "none"), first what it raised, cause the
\* __cause__ of the exception that leaves the operation.
Self(ioFail, engFail) ==
  [file |-> file, owns_file |-> owns_file, engine |-> engine,
   buffer |-> buffer, buffer_offset |-> buffer_offset,
   is_closed |-> is_closed, eof |-> eof, crc |-> crc,
   input_size |-> input_size, position |-> position,
   tdata |-> tdata, tpos |-> tpos, topen |-> topen, tcloses |-> tcloses,
   binary_file |-> binary_file, t_is_closed |-> t_is_closed,
   decoder |-> decoder, text_buffer |-> text_buffer,
   trailing_cr |-> trailing_cr, cookie_cache |-> cookie_cache,
   more |-> FALSE,
   io |-> 0, ioFail |-> ioFail, engFail |-> engFail, decFail |-> FALSE,
   hit |-> FALSE, origin |-> "none", first |-> "none", cause |-> "none",
   exc |-> "none", ret |-> <<>>, n |-> -1, acc |-> <<>>]

\* No exception.
NoErr == [origin |-> "none", first |-> "none", cause |-> "none"]

Raise(s, e) == [s EXCEPT !.exc = e]
\* An injected fault fires: the call raises e.
Fault(s, e) == [s EXCEPT !.exc = e, !.hit = TRUE]
\* The transport, or the engine, raises e.
FromTransport(s, e) == [s EXCEPT !.exc = e, !.origin = "transport", !.first = e]
FromEngine(s, e) == [s EXCEPT !.exc = e, !.origin = "engine", !.first = e]
\* "raise e(...) from exc" in a handler of the exception s leaves with.
RaiseFrom(s, e) == [s EXCEPT !.exc = e, !.cause = s.exc]
\* "except OSError: raise" followed by "except Exception as e: raise
\* OSError(...) from e".
OSErrorOrWrapped(s) ==
  IF s.exc \in {"OSError", "BadGzipFile"} THEN s ELSE RaiseFrom(s, "OSError")
Available(s) == Len(s.buffer) - s.buffer_offset
Unconsumed(s) == SubSeq(s.buffer, s.buffer_offset + 1, Len(s.buffer))

(* ------------------------------ read path ------------------------------ *)
\* The multi-member loop of _fill_buffer: while unused data remains after
\* stripping zero padding, a fresh decompressor takes it.
RECURSIVE ResolveUnused(_, _)
ResolveUnused(s, unused) ==
  Bind(lstrip(unused), LAMBDA u :
  IF u = <<>> THEN s
  ELSE Bind(decompress(decompressobj, u), LAMBDA r :
       IF r.err
       THEN RaiseFrom(FromEngine([s EXCEPT !.engine = r.e], "zlib.error"),
                      "BadGzipFile")
       ELSE ResolveUnused([s EXCEPT !.engine = r.e,
                                    !.buffer = s.buffer \o r.out],
                          r.e.unused)))

_fill_buffer(s) ==
  IF s.eof \/ s.file = "none" THEN s
  ELSE
    LET k == s.io + 1 IN
    IF k = s.ioFail
    THEN Fault(FromTransport([s EXCEPT !.io = k], "OSError"), "OSError")
    ELSE IF ~s.topen
    THEN RaiseFrom(FromTransport([s EXCEPT !.io = k], "ValueError"),
                   "OSError")
    ELSE
      LET compressed_chunk ==
            SubSeq(s.tdata, s.tpos + 1, Min(Len(s.tdata), s.tpos + chunk_size))
          s1 == [s EXCEPT !.io = k, !.tpos = s.tpos + Len(compressed_chunk)]
      IN
      IF compressed_chunk = <<>>
      THEN \* engine.flush() of a decompressor returns b"" and does not raise
           \* on truncated data; decFail: it raises zlib.error
           IF s.decFail
           THEN Fault(RaiseFrom(FromEngine([s1 EXCEPT !.eof = TRUE],
                                           "zlib.error"), "BadGzipFile"),
                      "BadGzipFile")
           ELSE [s1 EXCEPT !.eof = TRUE]
      ELSE
        Bind(decompress(s.engine, compressed_chunk), LAMBDA r :
        IF r.err
        THEN RaiseFrom(FromEngine([s1 EXCEPT !.engine = r.e], "zlib.error"),
                       "BadGzipFile")
        ELSE ResolveUnused([s1 EXCEPT !.engine = r.e,
                                      !.buffer = s.buffer \o r.out],
                           r.e.unused))

\* Mutation of ResetIfConsumed: a consumed buffer is left as it is.
ResetIfConsumed_never(s) == s

\* Mutation of ResetIfConsumed: the buffer is dropped after every read.
ResetIfConsumed_always(s) == [s EXCEPT !.buffer = <<>>, !.buffer_offset = 0]

\* "if we consumed everything, reset to keep buffer clean"
ResetIfConsumed(s) ==
  IF s.buffer_offset >= Len(s.buffer)
  THEN [s EXCEPT !.buffer = <<>>, !.buffer_offset = 0]
  ELSE s


\* Mutation of NormalizeSize: None is taken for 0.
NormalizeSize_none_is_zero(sz) ==
  IF sz = None THEN 0 ELSE IF sz < 0 THEN -1 ELSE sz

\* "if size is None: size = -1; if size < 0: size = -1"
NormalizeSize(sz) == IF sz = None THEN -1 ELSE IF sz < 0 THEN -1 ELSE sz

\* read(-1): the loop that drains the transport; chunks is what was
\* collected so far (it is dropped when _fill_buffer raises).
RECURSIVE ReadAllLoop(_, _)
ReadAllLoop(s, chunks) ==
  IF s.eof THEN [s EXCEPT !.ret = chunks,
                          !.position = s.position + Len(chunks)]
  ELSE Bind(_fill_buffer(s), LAMBDA f :
       IF f.exc # "none" THEN f
       ELSE ReadAllLoop([f EXCEPT !.buffer = <<>>], chunks \o f.buffer))

\* read(size > 0) and read(0): fill until size bytes are buffered or EOF.
RECURSIVE ReadSizeLoop(_, _)
ReadSizeLoop(s, size) ==
  IF Available(s) < size /\ ~s.eof
  THEN Bind(_fill_buffer(IF s.buffer_offset > BUFFER_COMPACTION_THRESHOLD
                         THEN [s EXCEPT !.buffer = Unconsumed(s),
                                        !.buffer_offset = 0]
                         ELSE s),
            LAMBDA f : IF f.exc # "none" THEN f ELSE ReadSizeLoop(f, size))
  ELSE s

read(s0, sz) ==
  Bind(s0, LAMBDA s :
  IF mode_op # "r" THEN Raise(s, "OSError")
  ELSE IF s.is_closed THEN Raise(s, "ValueError")
  ELSE IF s.file = "none" THEN Raise(s, "ValueError")
  ELSE
    LET size == NormalizeSize(sz) IN
    IF size = -1
    THEN ReadAllLoop([s EXCEPT !.buffer = <<>>, !.buffer_offset = 0],
                     Unconsumed(s))
    ELSE
      Bind(ReadSizeLoop(s, size), LAMBDA f :
      IF f.exc # "none" THEN f
      ELSE
        LET actual_read_size == Min(size, Available(f)) IN
        ResetIfConsumed(
          [f EXCEPT !.ret = SubSeq(f.buffer, f.buffer_offset + 1,
                                   f.buffer_offset + actual_read_size),
                    !.buffer_offset = f.buffer_offset + actual_read_size,
                    !.position = f.position + actual_read_size])))

\* _consume_bytes(amount): advance by consuming bytes without returning them.
RECURSIVE _consume_bytes(_, _)
_consume_bytes(s, remaining) ==
  IF remaining <= 0 THEN s
  ELSE
    Bind(IF Available(s) <= 0 /\ ~s.eof THEN _fill_buffer(s) ELSE s,
         LAMBDA f :
    IF f.exc # "none" THEN f
    ELSE IF Available(f) <= 0 /\ f.eof THEN f
    ELSE
      LET take == Min(remaining, Available(f)) IN
      _consume_bytes(
        ResetIfConsumed([f EXCEPT !.buffer_offset = f.buffer_offset + take,
                                  !.position = f.position + take]),
        remaining - take))

\* Mutation of _rewind_reader: the EOF flag survives the rewind.
_rewind_reader_keeps_eof(s) ==
  [s EXCEPT !.io = s.io + 1, !.tpos = 0, !.engine = decompressobj,
            !.buffer = <<>>, !.buffer_offset = 0, !.position = 0]

\* Mutation of _rewind_reader: the buffer survives the rewind.
_rewind_reader_keeps_buffer(s) ==
  [s EXCEPT !.io = s.io + 1, !.tpos = 0, !.engine = decompressobj,
            !.eof = FALSE, !.position = 0]

\* _rewind_reader(): seek the transport to its start, reset the decoder state.
_rewind_reader(s) ==
  IF s.file = "none" THEN Raise(s, "ValueError")
  ELSE IF ~seekable THEN Raise(s, "OSError")
  ELSE
    LET k == s.io + 1 IN
    IF k = s.ioFail
    THEN Fault(FromTransport([s EXCEPT !.io = k], "OSError"), "OSError")
    ELSE IF ~s.topen THEN FromTransport([s EXCEPT !.io = k], "ValueError")
    ELSE [s EXCEPT !.io = k, !.tpos = 0, !.engine = decompressobj,
                   !.buffer = <<>>, !.buffer_offset = 0, !.eof = FALSE,
                   !.position = 0]

\* Mutation of PeekLoop: the buffer is filled at most once.
PeekLoop_once(s, target) ==
  IF Available(s) < target /\ ~s.eof THEN _fill_buffer(s) ELSE s

\* peek(size): up to size bytes without advancing the read position.
RECURSIVE PeekLoop(_, _)
PeekLoop(s, target) ==
  IF Available(s) < target /\ ~s.eof
  THEN Bind(_fill_buffer(s), LAMBDA f :
       IF f.exc # "none" THEN f
       ELSE IF Available(f) = 0 /\ f.eof THEN f
       ELSE PeekLoop(f, target))
  ELSE s

peek(s, size) ==
  IF mode_op # "r" THEN Raise(s, "OSError")
  ELSE IF s.file = "none" THEN Raise(s, "ValueError")
  ELSE
    LET target == IF size <= 0
                  THEN (IF Available(s) > 0 THEN Available(s) ELSE 1)
                  ELSE size
    IN Bind(PeekLoop(s, target), LAMBDA f :
       IF f.exc # "none" THEN f
       ELSE [f EXCEPT !.ret = SubSeq(f.buffer, f.buffer_offset + 1,
                          f.buffer_offset + Min(target, Available(f)))])

\* self._buffer.find(b"\n", start): index (from 0) of the first newline at
\* or after start, -1 if there is none.
RECURSIVE find(_, _)
find(buf, start) ==
  IF start >= Len(buf) THEN -1
  ELSE IF buf[start + 1] = NL THEN start
  ELSE find(buf, start + 1)

\* readline(limit): the loop; chunks is what was collected so far.
RECURSIVE ReadlineLoop(_, _, _)
ReadlineLoop(s, limit, chunks) ==
  Bind(IF s.buffer_offset >= Len(s.buffer) /\ ~s.eof
       THEN _fill_buffer(s) ELSE s,
       LAMBDA f :
  IF f.exc # "none" THEN f
  ELSE IF f.buffer_offset >= Len(f.buffer) /\ f.eof
  THEN [f EXCEPT !.ret = chunks]
  ELSE IF f.buffer_offset >= Len(f.buffer) THEN ReadlineLoop(f, limit, chunks)
  ELSE
    Bind(find(f.buffer, f.buffer_offset), LAMBDA newline_index :
    LET start == f.buffer_offset
        end0 == IF newline_index # -1 THEN newline_index + 1 ELSE Len(f.buffer)
        total == Len(chunks)
        remaining == limit - total
        end == IF limit # -1 THEN Min(end0, start + remaining) ELSE end0
    IN
    IF limit # -1 /\ remaining <= 0 THEN [f EXCEPT !.ret = chunks]
    ELSE IF end <= start THEN [f EXCEPT !.ret = chunks]
    ELSE
      Bind(ResetIfConsumed([f EXCEPT !.buffer_offset = end,
                                     !.position = f.position + (end - start)]),
           LAMBDA g :
      IF (newline_index # -1 /\ end = newline_index + 1)
         \/ (limit # -1 /\ total + (end - start) >= limit)
      THEN [g EXCEPT !.ret = chunks \o SubSeq(f.buffer, start + 1, end)]
      ELSE ReadlineLoop(g, limit,
                        chunks \o SubSeq(f.buffer, start + 1, end)))))

readline(s0, limit) ==
  Bind(s0, LAMBDA s :
  IF mode_op # "r" THEN Raise(s, "OSError")
  ELSE IF s.is_closed THEN Raise(s, "ValueError")
  ELSE IF s.file = "none" THEN Raise(s, "ValueError")
  ELSE IF limit = None THEN ReadlineLoop(s, -1, <<>>)
  ELSE IF limit = 0 THEN s
  ELSE ReadlineLoop(s, limit, <<>>))

\* readline(limit) of aiogzip/__init__.py, the class the package exports:
\* the loop.  After _fill_buffer it takes what is buffered, and leaves the
\* loop when that is nothing.
RECURSIVE PkgReadlineLoop(_, _, _)
PkgReadlineLoop(s, limit, chunks) ==
  Bind(IF s.buffer_offset >= Len(s.buffer) /\ ~s.eof
       THEN _fill_buffer(s) ELSE s,
       LAMBDA f :
  IF f.exc # "none" THEN f
  ELSE IF f.buffer_offset >= Len(f.buffer) /\ f.eof
  THEN [f EXCEPT !.ret = chunks]
  ELSE IF Unconsumed(f) = <<>> THEN [f EXCEPT !.ret = chunks]
  ELSE
    Bind(find(f.buffer, f.buffer_offset), LAMBDA found :
    LET available == Unconsumed(f)
        newline_index == IF found = -1 THEN -1 ELSE found - f.buffer_offset
        take0 == IF newline_index = -1 THEN Len(available)
                 ELSE newline_index + 1
        take == IF limit # -1 THEN Min(take0, limit - Len(chunks)) ELSE take0
        chunk == IF take > 0 THEN SubSeq(available, 1, take) ELSE <<>>
    IN
    Bind(ResetIfConsumed(
           IF take > 0
           THEN [f EXCEPT !.buffer_offset = f.buffer_offset + take,
                          !.position = f.position + take]
           ELSE f),
         LAMBDA g :
    IF (newline_index # -1 /\ take = newline_index + 1)
       \/ (limit # -1 /\ Len(chunks \o chunk) >= limit)
    THEN [g EXCEPT !.ret = chunks \o chunk]
    ELSE PkgReadlineLoop(g, limit, chunks \o chunk))))

pkg_readline(s0, lim) ==
  Bind(s0, LAMBDA s :
  IF mode_op # "r" THEN Raise(s, "OSError")
  ELSE IF s.is_closed THEN Raise(s, "ValueError")
  ELSE IF s.file = "none" THEN Raise(s, "ValueError")
  ELSE Bind(IF lim = None THEN -1 ELSE lim, LAMBDA limit :
       IF limit = 0 THEN s
       ELSE PkgReadlineLoop(s, limit, <<>>)))

\* readlines(hint): readline() until it returns an empty line or the hint
\* is reached; the lines are returned concatenated in ret, n counts them.
RECURSIVE ReadlinesLoop(_, _, _, _)
ReadlinesLoop(s, hint, lines, count) ==
  Bind(readline([s EXCEPT !.ret = <<>>], -1), LAMBDA f :
  IF f.exc # "none" THEN f
  ELSE IF f.ret = <<>> THEN [f EXCEPT !.ret = lines, !.n = count]
  ELSE IF hint > 0 /\ Len(lines) + Len(f.ret) >= hint
       THEN [f EXCEPT !.ret = lines \o f.ret, !.n = count + 1]
  ELSE ReadlinesLoop(f, hint, lines \o f.ret, count + 1))

readlines(s, hint) ==
  IF mode_op # "r" THEN Raise(s, "OSError")
  ELSE IF s.is_closed THEN Raise(s, "ValueError")
  ELSE ReadlinesLoop(s, hint, <<>>, 0)

\* readinto(b) with len(b) = size: read(size) copied into b.
readinto(s, size) ==
  IF mode_op # "r" THEN Raise(s, "OSError")
  ELSE IF s.file = "none" THEN Raise(s, "ValueError")
  ELSE Bind(read(s, size), LAMBDA f :
       IF f.exc # "none" THEN f ELSE [f EXCEPT !.n = Len(f.ret)])

\* __aiter__(): "return self"; it raises nothing.
aiter(s) == s

\* __anext__(): the next line, StopAsyncIteration when there is none.
anext(s) ==
  IF s.is_closed THEN Raise(s, "StopAsyncIteration")
  ELSE Bind(readline(s, -1), LAMBDA f :
       IF f.exc # "none" THEN f
       ELSE IF f.ret = <<>> THEN Raise(f, "StopAsyncIteration")
       ELSE f)

(* ------------------------------ transport ------------------------------ *)
\* await self._file.write(data): the ioFail-th transport call raises OSError,
\* a closed handle raises ValueError.
file_write(s, data) ==
  LET k == s.io + 1 IN
  IF k = s.ioFail
  THEN Fault(FromTransport([s EXCEPT !.io = k], "OSError"), "OSError")
  ELSE IF ~s.topen THEN FromTransport([s EXCEPT !.io = k], "ValueError")
  ELSE [s EXCEPT !.io = k, !.tdata = s.tdata \o data]

\* self._file.flush(): writes nothing new to the transport's data.
file_flush(s) ==
  LET k == s.io + 1 IN
  IF k = s.ioFail
  THEN Fault(FromTransport([s EXCEPT !.io = k], "OSError"), "OSError")
  ELSE IF ~s.topen THEN FromTransport([s EXCEPT !.io = k], "ValueError")
  ELSE [s EXCEPT !.io = k]

\* self._file.close()
file_close(s) ==
  LET k == s.io + 1 IN
  IF k = s.ioFail
  THEN Fault(FromTransport([s EXCEPT !.io = k, !.tcloses = s.tcloses + 1],
                           "OSError"), "OSError")
  ELSE [s EXCEPT !.io = k, !.tcloses = s.tcloses + 1, !.topen = FALSE]

(* ------------------------------ write path ----------------------------- *)
\* engine.compress(data): the compressor keeps the input pending or emits
\* one compressed byte holding everything pending (emit chooses).
compress(e, data, emit) ==
  IF e.kind # "deflate" \/ e.st # "open"
  THEN [e |-> e, out |-> <<>>, err |-> TRUE]
  ELSE IF emit /\ e.pending \o data # <<>>
  THEN [e |-> [e EXCEPT !.pending = <<>>],
        out |-> << Tok("D", e.pending \o data, 0) >>, err |-> FALSE]
  ELSE [e |-> [e EXCEPT !.pending = e.pending \o data],
        out |-> <<>>, err |-> FALSE]

\* Mutation of sync_flush: the flush ends the deflate stream.
sync_flush_ends(e, emit) ==
  [e |-> [e EXCEPT !.pending = <<>>, !.st = "finished"],
   out |-> << Tok("E", e.pending, 0) >>, err |-> FALSE]

\* engine.flush(zlib.Z_SYNC_FLUSH): everything pending is emitted, the
\* deflate stream stays open.
sync_flush(e, emit) ==
  IF e.kind # "deflate" \/ e.st # "open"
  THEN [e |-> e, out |-> <<>>, err |-> TRUE]
  ELSE IF e.pending = <<>> /\ ~emit
  THEN [e |-> e, out |-> <<>>, err |-> FALSE]
  ELSE [e |-> [e EXCEPT !.pending = <<>>],
        out |-> << Tok("D", e.pending, 0) >>, err |-> FALSE]

\* engine.flush() (Z_FINISH): the last block, which ends the deflate stream.
finish(e) ==
  IF e.kind # "deflate" \/ e.st # "open"
  THEN [e |-> e, out |-> <<>>, err |-> TRUE]
  ELSE [e |-> [e EXCEPT !.pending = <<>>, !.st = "finished"],
        out |-> << Tok("E", e.pending, 0) >>, err |-> FALSE]

\* write(data); emit is the compressor's choice to emit output now.
write(s0, data, emit) ==
  Bind(s0, LAMBDA s :
  IF ~_writing_mode THEN Raise(s, "OSError")
  ELSE IF s.is_closed THEN Raise(s, "ValueError")
  ELSE IF s.file = "none" THEN Raise(s, "ValueError")
  ELSE
    Bind([s EXCEPT !.crc = crc32(data, s.crc),
                   !.input_size = s.input_size + Len(data),
                   !.position = s.input_size + Len(data)],
         LAMBDA s1 :
    Bind(compress(s1.engine, data, emit), LAMBDA r :
    IF s1.engFail
    THEN Fault(RaiseFrom(FromEngine(s1, "zlib.error"), "OSError"), "OSError")
    ELSE IF r.err THEN RaiseFrom(FromEngine(s1, "zlib.error"), "OSError")
    ELSE
      Bind(IF r.out # <<>> THEN file_write([s1 EXCEPT !.engine = r.e], r.out)
           ELSE [s1 EXCEPT !.engine = r.e],
           LAMBDA w :
      IF w.exc # "none" THEN OSErrorOrWrapped(w)
      ELSE [w EXCEPT !.n = Len(data), !.acc = w.acc \o data]))))

\* writelines(lines): write() for each line in turn.
RECURSIVE WritelinesLoop(_, _, _)
WritelinesLoop(s, lines, emit) ==
  IF lines = <<>> THEN s
  ELSE Bind(write(s, Head(lines), emit), LAMBDA w :
       IF w.exc # "none" THEN w
       ELSE WritelinesLoop([w EXCEPT !.n = -1], Tail(lines), emit))

writelines(s, lines, emit) ==
  IF ~_writing_mode THEN Raise(s, "OSError")
  ELSE IF s.is_closed THEN Raise(s, "ValueError")
  ELSE WritelinesLoop(s, lines, emit)

\* flush()
flush(s, emit) ==
  IF s.is_closed THEN Raise(s, "ValueError")
  ELSE IF _writing_mode /\ s.file # "none"
  THEN
    Bind(sync_flush(s.engine, emit), LAMBDA r :
    IF s.engFail
    THEN Fault(RaiseFrom(FromEngine(s, "zlib.error"), "OSError"), "OSError")
    ELSE IF r.err THEN RaiseFrom(FromEngine(s, "zlib.error"), "OSError")
    ELSE
      Bind(IF r.out # <<>> THEN file_write([s EXCEPT !.engine = r.e], r.out)
           ELSE [s EXCEPT !.engine = r.e],
           LAMBDA w :
      IF w.exc # "none" THEN OSErrorOrWrapped(w)
      ELSE Bind(file_flush(w), LAMBDA fl :
           IF fl.exc # "none" THEN OSErrorOrWrapped(fl) ELSE fl)))
  ELSE s

\* Mutation of _close_file: the transport is closed whoever owns it.
_close_file_always(x) == IF x.file # "none" THEN file_close(x) ELSE x

\* The transport is closed if the stream owns it or closefd is set.
_close_file(x) ==
  IF x.file # "none" /\ (x.owns_file \/ closefd) THEN file_close(x) ELSE x

\* The try block of close(): final flush, trailer, transport close.
_close_sequence(s1) ==
  IF _writing_mode /\ s1.file # "none"
  THEN
    Bind(finish(s1.engine), LAMBDA r :
    IF s1.engFail THEN Fault(FromEngine(s1, "zlib.error"), "zlib.error")
    ELSE IF r.err THEN FromEngine(s1, "zlib.error")
    ELSE
      Bind(IF r.out # <<>> THEN file_write([s1 EXCEPT !.engine = r.e], r.out)
           ELSE [s1 EXCEPT !.engine = r.e],
           LAMBDA w1 :
      IF w1.exc # "none" THEN w1
      ELSE Bind(file_write(w1, _build_gzip_trailer(w1.crc, w1.input_size)),
                LAMBDA w2 :
           IF w2.exc # "none" THEN w2 ELSE _close_file(w2))))
  ELSE _close_file(s1)

\* Mutation of close: the closed flag is not consulted.
close_unguarded(s) == _close_sequence([s EXCEPT !.is_closed = TRUE])

\* Mutation of close: the closed flag is set only when the sequence succeeds.
close_flag_on_success(s) ==
  IF s.is_closed THEN s
  ELSE Bind(_close_sequence(s), LAMBDA r :
       IF r.exc = "none" THEN [r EXCEPT !.is_closed = TRUE] ELSE r)

\* close()
close(s) ==
  IF s.is_closed THEN s
  ELSE _close_sequence([s EXCEPT !.is_closed = TRUE])

(* -------------------------------- seek --------------------------------- *)
Zeros(k) == [i \in 1..k |-> 0]

\* Mutation of ZeroFill: the position moves, nothing is written.
ZeroFill_skips(s, zero_chunk, remaining, emit) ==
  [s EXCEPT !.position = s.position + remaining]

\* The zero-fill loop of a write-mode seek.
RECURSIVE ZeroFill(_, _, _, _)
ZeroFill(s, zero_chunk, remaining, emit) ==
  IF remaining <= 0 THEN s
  ELSE LET chunk == IF remaining >= Len(zero_chunk) THEN zero_chunk
                    ELSE SubSeq(zero_chunk, 1, remaining)
       IN Bind(write(s, chunk, emit), LAMBDA w :
          IF w.exc # "none" THEN w
          ELSE ZeroFill(w, zero_chunk, remaining - Len(chunk), emit))

seek(s, offset, whence, emit) ==
  IF s.file = "none" THEN Raise(s, "ValueError")
  ELSE IF _writing_mode
  THEN
    IF whence \notin {SEEK_CUR, SEEK_SET} THEN Raise(s, "ValueError")
    ELSE
      LET target == IF whence = SEEK_CUR THEN s.position + offset ELSE offset
          count == target - s.position
      IN
      IF target < s.position THEN Raise(s, "OSError")
      ELSE Bind(IF count > 0
                THEN ZeroFill(s, Zeros(Min(ZERO_CHUNK, count)), count, emit)
                ELSE s,
                LAMBDA z :
           IF z.exc # "none" THEN z ELSE [z EXCEPT !.n = z.position])
  ELSE
    IF whence \notin {SEEK_CUR, SEEK_SET} THEN Raise(s, "ValueError")
    ELSE
      LET target == IF whence = SEEK_CUR THEN s.position + offset ELSE offset IN
      IF target < 0 THEN Raise(s, "OSError")
      ELSE
        Bind(IF target < s.position THEN _rewind_reader(s) ELSE s, LAMBDA r :
        IF r.exc # "none" THEN r
        ELSE Bind(_consume_bytes(r, target - r.position), LAMBDA c :
             IF c.exc # "none" THEN c ELSE [c EXCEPT !.n = c.position]))

\* Mutation of rewind: the mode is not checked.
rewind_any_mode(s) == seek(s, 0, SEEK_SET, FALSE)

\* rewind()
rewind(s) ==
  IF mode_op # "r" THEN Raise(s, "OSError") ELSE seek(s, 0, SEEK_SET, FALSE)

(* ------------------------------ __aenter__ ----------------------------- *)
\* aiofiles.open(filename, file_mode): a new handle at offset 0; mode "wb"
\* truncates the file.
\* _build_gzip_header(...) is the member's header bytes.
aenter(s0) ==
  Bind(s0, LAMBDA s :
  LET s1 == IF external
            THEN [s EXCEPT !.file = "set", !.owns_file = FALSE]
            ELSE [s EXCEPT !.file = "set", !.owns_file = TRUE,
                           !.topen = TRUE, !.tpos = 0,
                           !.tdata = IF _writing_mode THEN <<>> ELSE s.tdata]
  IN
  IF _writing_mode
  THEN Bind(file_write([s1 EXCEPT !.engine = compressobj], Header), LAMBDA w :
       IF w.exc # "none" THEN w
       ELSE [w EXCEPT !.crc = 0, !.input_size = 0])
  ELSE [s1 EXCEPT !.engine = decompressobj, !.position = 0])

(* ------------------------------ text layer ---------------------------- *)
\* The incremental decoder: data is the held-back bytes plus the new input.
\* r.text is what it decodes to, r.pending what it holds back, r.err whether
\* it raises UnicodeDecodeError.
RECURSIVE DecodeBytes(_, _)
DecodeBytes(data, final) ==
  IF data = <<>> THEN [text |-> <<>>, pending |-> <<>>, err |-> FALSE]
  ELSE IF Head(data) = LEAD
  THEN IF Len(data) = 1
       THEN [text |-> <<>>, pending |-> data, err |-> final]
       ELSE IF data[2] = CONT
       THEN Bind(DecodeBytes(SubSeq(data, 3, Len(data)), final), LAMBDA q :
            [q EXCEPT !.text = <<WIDE>> \o q.text])
       ELSE [text |-> <<>>, pending |-> <<>>, err |-> TRUE]
  ELSE IF Head(data) = CONT
  THEN [text |-> <<>>, pending |-> <<>>, err |-> TRUE]
  ELSE Bind(DecodeBytes(Tail(data), final), LAMBDA q :
       [q EXCEPT !.text = <<Head(data)>> \o q.text])

\* text.encode(encoding)
RECURSIVE encode(_)
encode(text) ==
  IF text = <<>> THEN <<>>
  ELSE (IF Head(text) = WIDE THEN <<LEAD, CONT>> ELSE <<Head(text)>>)
       \o encode(Tail(text))

\* text.replace("\n", nl)
RECURSIVE ReplaceNL(_, _)
ReplaceNL(text, nl) ==
  IF text = <<>> THEN <<>>
  ELSE (IF Head(text) = NL THEN nl ELSE <<Head(text)>>)
       \o ReplaceNL(Tail(text), nl)

\* text.replace("\r\n", "\n").replace("\r", "\n")
RECURSIVE UniversalNL(_)
UniversalNL(text) ==
  IF text = <<>> THEN <<>>
  ELSE IF Head(text) = CR
  THEN IF Len(text) >= 2 /\ text[2] = NL
       THEN <<NL>> \o UniversalNL(SubSeq(text, 3, Len(text)))
       ELSE <<NL>> \o UniversalNL(Tail(text))
  ELSE <<Head(text)>> \o UniversalNL(Tail(text))

\* Mutation of _apply_newline_decoding: a CR that ended the previous chunk
\* is forgotten.
_apply_newline_decoding_no_carry(s, text) ==
  IF text = <<>> THEN s
  ELSE IF newline = "None"
  THEN [s EXCEPT !.trailing_cr = (text[Len(text)] = CR),
                 !.text_buffer = s.text_buffer \o UniversalNL(text)]
  ELSE [s EXCEPT !.text_buffer = s.text_buffer \o text]

\* _apply_newline_decoding(text), appended to the text buffer.
_apply_newline_decoding(s, text) ==
  IF text = <<>> THEN s
  ELSE IF newline = "None"
  THEN LET t1 == IF s.trailing_cr /\ Head(text) = NL THEN Tail(text) ELSE text
       IN [s EXCEPT !.trailing_cr = (t1 # <<>> /\ t1[Len(t1)] = CR),
                    !.text_buffer = s.text_buffer \o UniversalNL(t1)]
  ELSE [s EXCEPT !.text_buffer = s.text_buffer \o text]

\* _read_chunk_and_decode(): s.more is the value it returns.
_read_chunk_and_decode(s) ==
  IF s.binary_file = "none" THEN [s EXCEPT !.more = FALSE]
  ELSE IF s.eof THEN [s EXCEPT !.more = FALSE]
  ELSE
    Bind(read([s EXCEPT !.ret = <<>>], chunk_size), LAMBDA b :
    IF b.exc # "none" THEN b
    ELSE IF b.ret = <<>>
    THEN Bind(DecodeBytes(b.decoder, TRUE), LAMBDA d :
         IF d.err THEN Raise([b EXCEPT !.ret = <<>>], "UnicodeDecodeError")
         ELSE [_apply_newline_decoding([b EXCEPT !.decoder = d.pending,
                                                 !.ret = <<>>], d.text)
                 EXCEPT !.more = (d.text # <<>>)])
    ELSE Bind(DecodeBytes(b.decoder \o b.ret, FALSE), LAMBDA d :
         IF d.err THEN Raise([b EXCEPT !.ret = <<>>], "UnicodeDecodeError")
         ELSE [_apply_newline_decoding([b EXCEPT !.decoder = d.pending,
                                                 !.ret = <<>>], d.text)
                 EXCEPT !.more = TRUE]))

\* text read(-1): the loop; chunks is what was collected so far.
RECURSIVE TextReadAllLoop(_, _)
TextReadAllLoop(s, chunks) ==
  Bind(_read_chunk_and_decode(s), LAMBDA f :
  IF f.exc # "none" THEN f
  ELSE IF ~f.more THEN [f EXCEPT !.ret = chunks]
  ELSE TextReadAllLoop([f EXCEPT !.text_buffer = <<>>],
                       chunks \o f.text_buffer))

\* text read(size > 0): decode until size characters are buffered.
RECURSIVE TextReadSizeLoop(_, _)
TextReadSizeLoop(s, size) ==
  IF Len(s.text_buffer) < size
  THEN Bind(_read_chunk_and_decode(s), LAMBDA f :
       IF f.exc # "none" \/ ~f.more THEN f ELSE TextReadSizeLoop(f, size))
  ELSE s

text_read(s, sz) ==
  IF mode_op # "r" THEN Raise(s, "OSError")
  ELSE IF s.t_is_closed THEN Raise(s, "ValueError")
  ELSE IF s.binary_file = "none" THEN Raise(s, "ValueError")
  ELSE
    LET size == NormalizeSize(sz) IN
    IF size = 0 THEN s
    ELSE IF size = -1
    THEN TextReadAllLoop([s EXCEPT !.text_buffer = <<>>], s.text_buffer)
    ELSE Bind(TextReadSizeLoop(s, size), LAMBDA f :
         IF f.exc # "none" THEN f
         ELSE [f EXCEPT
                 !.ret = SubSeq(f.text_buffer, 1, Min(size, Len(f.text_buffer))),
                 !.text_buffer = SubSeq(f.text_buffer, size + 1,
                                        Len(f.text_buffer))])

\* text.find(c) and text.find("\r\n"): the index (from 0) of the first
\* occurrence, -1 if there is none.
FindChar(text, c) ==
  IF \E i \in 1..Len(text) : text[i] = c
  THEN (CHOOSE i \in 1..Len(text) :
          text[i] = c /\ \A j \in 1..(i - 1) : text[j] # c) - 1
  ELSE -1
FindCRLF(text) ==
  IF \E i \in 1..(Len(text) - 1) : text[i] = CR /\ text[i + 1] = NL
  THEN (CHOOSE i \in 1..(Len(text) - 1) :
          /\ text[i] = CR /\ text[i + 1] = NL
          /\ \A j \in 1..(i - 1) : ~(text[j] = CR /\ text[j + 1] = NL)) - 1
  ELSE -1

_at_stream_eof(s) == IF s.binary_file = "none" THEN TRUE ELSE s.eof

\* Mutation of _get_line_terminator_pos: a trailing CR is a terminator at
\* once, whether or not more data may follow.
_get_line_terminator_pos_no_wait(s, text) ==
  IF newline \in {"None", ""}
  THEN LET pos_n == FindChar(text, NL)
           pos_r == FindChar(text, CR)
       IN IF pos_r # -1 /\ (pos_n = -1 \/ pos_r < pos_n)
          THEN <<pos_r, IF pos_r + 1 < Len(text) /\ text[pos_r + 2] = NL
                        THEN 2 ELSE 1>>
          ELSE IF pos_n # -1 THEN <<pos_n, 1>> ELSE <<-1, 0>>
  ELSE IF newline = "\r"
  THEN (IF FindChar(text, CR) # -1 THEN <<FindChar(text, CR), 1>>
        ELSE <<-1, 0>>)
  ELSE IF newline = "\r\n"
  THEN (IF FindCRLF(text) # -1 THEN <<FindCRLF(text), 2>> ELSE <<-1, 0>>)
  ELSE (IF FindChar(text, NL) # -1 THEN <<FindChar(text, NL), 1>>
        ELSE <<-1, 0>>)

\* _get_line_terminator_pos(text): <<position, length>> of the first line
\* terminator of the newline mode, <<-1, 0>> if there is none.
_get_line_terminator_pos(s, text) ==
  IF newline \in {"None", ""}
  THEN LET pos_n == FindChar(text, NL)
           pos_r == FindChar(text, CR)
           candidate == IF pos_n # -1 THEN <<pos_n, 1>> ELSE <<-1, 0>>
           cr_length == IF pos_r + 1 < Len(text) /\ text[pos_r + 2] = NL
                        THEN 2 ELSE 1
           cr_is_trailing == pos_r + 1 = Len(text)
           should_wait_for_lf ==
             /\ newline = "" /\ cr_length = 1 /\ cr_is_trailing
             /\ ~_at_stream_eof(s)
       IN IF pos_n = -1 /\ pos_r = -1 THEN <<-1, 0>>
          ELSE IF pos_r # -1 /\ ~should_wait_for_lf
                  /\ (candidate[1] = -1 \/ pos_r < candidate[1])
          THEN <<pos_r, cr_length>>
          ELSE candidate
  ELSE IF newline = "\r"
  THEN (IF FindChar(text, CR) # -1 THEN <<FindChar(text, CR), 1>>
        ELSE <<-1, 0>>)
  ELSE IF newline = "\r\n"
  THEN (IF FindCRLF(text) # -1 THEN <<FindCRLF(text), 2>> ELSE <<-1, 0>>)
  ELSE (IF FindChar(text, NL) # -1 THEN <<FindChar(text, NL), 1>>
        ELSE <<-1, 0>>)

\* The slices text[:n] and text[n:]; a negative n counts from the end.
SliceAt(text, n) ==
  IF n >= 0 THEN (IF n < Len(text) THEN n ELSE Len(text))
  ELSE (IF Len(text) + n > 0 THEN Len(text) + n ELSE 0)
SliceTo(text, n) == SubSeq(text, 1, SliceAt(text, n))
SliceFrom(text, n) == SubSeq(text, SliceAt(text, n) + 1, Len(text))

\* "Apply limit if specified": line is returned, cut to limit characters;
\* what is cut off goes back in front of rest.
ApplyLimit(s, line, rest, limit) ==
  IF limit # -1 /\ Len(line) > limit
  THEN [s EXCEPT !.ret = SliceTo(line, limit),
                 !.text_buffer = SliceFrom(line, limit) \o rest]
  ELSE [s EXCEPT !.ret = line, !.text_buffer = rest]

\* The "while True" loop of text readline(limit).
RECURSIVE TextReadlineLoop(_, _)
TextReadlineLoop(s, limit) ==
  Bind(_get_line_terminator_pos(s, s.text_buffer), LAMBDA tp :
  IF tp[1] # -1
  THEN ApplyLimit(s, SubSeq(s.text_buffer, 1, tp[1] + tp[2]),
                  SubSeq(s.text_buffer, tp[1] + tp[2] + 1, Len(s.text_buffer)),
                  limit)
  ELSE IF limit # -1 /\ Len(s.text_buffer) >= limit
  THEN [s EXCEPT !.ret = SliceTo(s.text_buffer, limit),
                 !.text_buffer = SliceFrom(s.text_buffer, limit)]
  ELSE Bind(_read_chunk_and_decode(s), LAMBDA f :
       IF f.exc # "none" THEN f
       ELSE IF ~f.more
       THEN (IF f.text_buffer = <<>> THEN [f EXCEPT !.ret = <<>>]
             ELSE ApplyLimit(f, f.text_buffer, <<>>, limit))
       ELSE TextReadlineLoop(f, limit)))

\* text readline(limit)
text_readline(s, lim) ==
  IF s.t_is_closed THEN Raise(s, "ValueError")
  ELSE IF mode_op # "r" THEN Raise(s, "OSError")
  ELSE LET limit == IF lim = None THEN -1 ELSE lim IN
       IF limit = 0 THEN s ELSE TextReadlineLoop(s, limit)

\* The "while True" loop of text __anext__().
RECURSIVE TextAnextLoop(_)
TextAnextLoop(s) ==
  Bind(_get_line_terminator_pos(s, s.text_buffer), LAMBDA tp :
  IF tp[1] # -1
  THEN [s EXCEPT !.ret = SubSeq(s.text_buffer, 1, tp[1] + tp[2]),
                 !.text_buffer = SubSeq(s.text_buffer, tp[1] + tp[2] + 1,
                                        Len(s.text_buffer))]
  ELSE Bind(_read_chunk_and_decode(s), LAMBDA f :
       IF f.exc # "none" THEN f
       ELSE IF ~f.more
       THEN (IF f.text_buffer # <<>>
             THEN [f EXCEPT !.ret = f.text_buffer, !.text_buffer = <<>>]
             ELSE Raise(f, "StopAsyncIteration"))
       ELSE TextAnextLoop(f)))

\* text __anext__()
text_anext(s) ==
  IF s.t_is_closed THEN Raise(s, "StopAsyncIteration") ELSE TextAnextLoop(s)

\* os.linesep on a POSIX platform
linesep == <<NL>>

\* text write(data)
text_write(s, data, emit) ==
  IF ~_writing_mode THEN Raise(s, "OSError")
  ELSE IF s.t_is_closed THEN Raise(s, "ValueError")
  ELSE IF s.binary_file = "none" THEN Raise(s, "ValueError")
  ELSE
    LET text_to_encode ==
          CASE newline = "None" -> ReplaceNL(data, linesep)
            [] newline = "\n" -> ReplaceNL(data, <<NL>>)
            [] newline = "\r" -> ReplaceNL(data, <<CR>>)
            [] newline = "\r\n" -> ReplaceNL(data, <<CR, NL>>)
            [] OTHER -> data
    IN Bind(write(s, encode(text_to_encode), emit), LAMBDA w :
       IF w.exc # "none" THEN w ELSE [w EXCEPT !.n = Len(data)])

\* text close()
text_close(s) ==
  IF s.t_is_closed THEN s
  ELSE
    LET s1 == [s EXCEPT !.t_is_closed = TRUE, !.cookie_cache = <<>>] IN
    IF ~_writing_mode /\ DecodeBytes(s1.decoder, TRUE).err
    THEN Raise(s1, "UnicodeDecodeError")
    ELSE
      LET s2 == IF ~_writing_mode THEN [s1 EXCEPT !.decoder = <<>>] ELSE s1 IN
      IF s2.binary_file # "none" THEN close(s2) ELSE s2

\* text __aenter__(): a new AsyncGzipBinaryFile is constructed and entered.
text_aenter(s) ==
  aenter([s EXCEPT !.binary_file = "set",
                   !.file = "none", !.owns_file = FALSE, !.engine = NoEngine,
                   !.buffer = <<>>, !.buffer_offset = 0, !.is_closed = FALSE,
                   !.eof = FALSE, !.crc = 0, !.input_size = 0,
                   !.position = 0])

\* The keys of the cookie cache, and the entry stored under a key.
Cookies(cache) == { cache[i].cookie : i \in DOMAIN cache }
Cached(cache, cookie) ==
  cache[CHOOSE i \in DOMAIN cache : cache[i].cookie = cookie]

\* self._cookie_cache[cookie] = state: a key that is present keeps its place
\* in the dict's order, a new key goes last.
Store(cache, entry) ==
  IF entry.cookie \in Cookies(cache)
  THEN [i \in DOMAIN cache |->
          IF cache[i].cookie = entry.cookie THEN entry ELSE cache[i]]
  ELSE Append(cache, entry)

\* text tell(): the cookie is (bytes_offset << 1) | flag; the snapshot is
\* stored after the oldest MAX_COOKIE_CACHE_SIZE // 2 keys of a full cache
\* were removed.
text_tell(s) ==
  IF s.binary_file = "none" THEN Raise(s, "ValueError")
  ELSE
    LET bytes_offset == s.position
        decoder_state == s.decoder
        flag == IF decoder_state # <<>> THEN 1 ELSE 0
        cookie == bytes_offset * 2 + flag
        kept == IF Len(s.cookie_cache) >= MAX_COOKIE_CACHE_SIZE
                THEN SubSeq(s.cookie_cache, (MAX_COOKIE_CACHE_SIZE \div 2) + 1,
                            Len(s.cookie_cache))
                ELSE s.cookie_cache
    IN [s EXCEPT !.cookie_cache =
                    Store(kept, [cookie |-> cookie, byte_offset |-> bytes_offset,
                                 decoder_state |-> decoder_state,
                                 text_buffer |-> s.text_buffer,
                                 trailing_cr |-> s.trailing_cr]),
                 !.n = cookie]

\* Mutation of text_seek: a cached cookie restores the byte offset alone.
text_seek_offset_only(s, offset, whence) ==
  IF s.binary_file = "none" THEN Raise(s, "ValueError")
  ELSE IF whence # SEEK_SET \/ offset \notin Cookies(s.cookie_cache)
  THEN Raise(s, "OSError")
  ELSE Bind(seek(s, Cached(s.cookie_cache, offset).byte_offset, SEEK_SET,
                 FALSE), LAMBDA b :
       IF b.exc # "none" THEN b
       ELSE [b EXCEPT !.decoder = <<>>, !.text_buffer = <<>>,
                      !.trailing_cr = FALSE, !.n = offset])

\* Mutation of text_seek: a cookie that is not cached is taken as an offset.
text_seek_any_cookie(s, offset, whence) ==
  IF s.binary_file = "none" THEN Raise(s, "ValueError")
  ELSE IF whence # SEEK_SET THEN Raise(s, "OSError")
  ELSE Bind(seek(s, offset \div 2, SEEK_SET, FALSE), LAMBDA b :
       IF b.exc # "none" THEN b
       ELSE [b EXCEPT !.decoder = <<>>, !.text_buffer = <<>>,
                      !.trailing_cr = FALSE, !.n = offset])

\* text seek(offset, whence)
text_seek(s, offset, whence) ==
  IF s.binary_file = "none" THEN Raise(s, "ValueError")
  ELSE IF whence = SEEK_CUR
  THEN IF offset # 0 THEN Raise(s, "UnsupportedOperation") ELSE text_tell(s)
  ELSE IF whence = SEEK_END
  THEN IF offset # 0 THEN Raise(s, "UnsupportedOperation")
       ELSE Bind(text_read(s, -1), LAMBDA r :
            IF r.exc # "none" THEN r ELSE text_tell([r EXCEPT !.ret = <<>>]))
  ELSE IF whence # SEEK_SET THEN Raise(s, "ValueError")
  ELSE IF offset \in Cookies(s.cookie_cache)
  THEN Bind(Cached(s.cookie_cache, offset), LAMBDA cached_state :
       Bind(seek(s, cached_state.byte_offset, SEEK_SET, FALSE), LAMBDA b :
       IF b.exc # "none" THEN b
       ELSE [b EXCEPT !.decoder = cached_state.decoder_state,
                      !.text_buffer = cached_state.text_buffer,
                      !.trailing_cr = cached_state.trailing_cr,
                      !.n = offset]))
  ELSE IF offset # 0 THEN Raise(s, "OSError")
  ELSE Bind(seek(s, offset \div 2, SEEK_SET, FALSE), LAMBDA b :
       IF b.exc # "none" THEN b
       ELSE [b EXCEPT !.decoder = <<>>, !.text_buffer = <<>>,
                      !.trailing_cr = FALSE, !.n = offset])

\* The text that read() returns when it is called on s.
RemainingText(s) ==
  text_read([s EXCEPT !.exc = "none", !.ret = <<>>, !.n = -1, !.io = 0,
                      !.ioFail = 0, !.hit = FALSE], -1).ret

(* ---------------------------- two instances --------------------------- *)
\* An operation of one of two instances runs from one transport call to the
\* next: it begins, is suspended in each "await self._file...", and is
\* resumed with the result.  run says where it is suspended.
Run(op, stage, arg, data, emit, chunks) ==
  [op |-> op, stage |-> stage, arg |-> arg, data |-> data, emit |-> emit,
   chunks |-> chunks]
Idle == Run("idle", "", 0, <<>>, FALSE, <<>>)
Done(s) == [s |-> s, run |-> Idle]
Suspended(s, run) == [s |-> s, run |-> run]

\* Mutation of Own: _buffer and _buffer_offset are attributes of the class,
\* the ones the first instance uses.
Own_class_buffer(ss, i) ==
  [ss[i] EXCEPT !.buffer = ss[1].buffer, !.buffer_offset = ss[1].buffer_offset]

\* The fields a method of instance i works on: __init__ creates every one of
\* them on the instance.
Own(ss, i) == ss[i]

\* The record as a new call finds it.
Fresh(s) == [s EXCEPT !.exc = "none", !.ret = <<>>, !.n = -1, !.io = 0,
                      !.origin = "none", !.first = "none", !.cause = "none",
                      !.acc = <<>>, !.more = FALSE, !.hit = FALSE]
\* What the caller and the transport can see of an instance.
Visible(s) == [s EXCEPT !.io = 0, !.more = FALSE, !.hit = FALSE]

\* __aenter__: suspended in aiofiles.open and in the write of the header.
EnterEngine(s1) ==
  IF _writing_mode
  THEN Suspended([s1 EXCEPT !.engine = compressobj],
                 Run("enter", "header", 0, <<>>, FALSE, <<>>))
  ELSE Done([s1 EXCEPT !.engine = decompressobj, !.position = 0])
BeginEnter(s) ==
  IF external THEN EnterEngine([s EXCEPT !.file = "set", !.owns_file = FALSE])
  ELSE Suspended(s, Run("enter", "open", 0, <<>>, FALSE, <<>>))
StepEnter(s, run) ==
  IF run.stage = "open"
  THEN EnterEngine([s EXCEPT !.file = "set", !.owns_file = TRUE,
                             !.topen = TRUE, !.tpos = 0,
                             !.tdata = IF _writing_mode THEN <<>>
                                       ELSE s.tdata])
  ELSE Bind(file_write(s, Header), LAMBDA w :
       IF w.exc # "none" THEN Done(w)
       ELSE Done([w EXCEPT !.crc = 0, !.input_size = 0]))

\* read(size): suspended in the transport read of every _fill_buffer.
Compact(s) ==
  IF s.buffer_offset > BUFFER_COMPACTION_THRESHOLD
  THEN [s EXCEPT !.buffer = Unconsumed(s), !.buffer_offset = 0]
  ELSE s
ReturnSize(f, size) ==
  LET actual_read_size == Min(size, Available(f)) IN
  Done(ResetIfConsumed(
         [f EXCEPT !.ret = SubSeq(f.buffer, f.buffer_offset + 1,
                                  f.buffer_offset + actual_read_size),
                   !.buffer_offset = f.buffer_offset + actual_read_size,
                   !.position = f.position + actual_read_size]))
ReturnAll(s, chunks) ==
  Done([s EXCEPT !.ret = chunks, !.position = s.position + Len(chunks)])
BeginRead(s, sz) ==
  IF mode_op # "r" THEN Done(Raise(s, "OSError"))
  ELSE IF s.is_closed THEN Done(Raise(s, "ValueError"))
  ELSE IF s.file = "none" THEN Done(Raise(s, "ValueError"))
  ELSE
    LET size == NormalizeSize(sz) IN
    IF size = -1
    THEN IF s.eof
         THEN ReturnAll([s EXCEPT !.buffer = <<>>, !.buffer_offset = 0],
                        Unconsumed(s))
         ELSE Suspended([s EXCEPT !.buffer = <<>>, !.buffer_offset = 0],
                        Run("read", "all", -1, <<>>, FALSE, Unconsumed(s)))
    ELSE IF Available(s) < size /\ ~s.eof
    THEN Suspended(Compact(s), Run("read", "size", size, <<>>, FALSE, <<>>))
    ELSE ReturnSize(s, size)
StepRead(s, run) ==
  Bind(_fill_buffer(s), LAMBDA f :
  IF f.exc # "none" THEN Done(f)
  ELSE IF run.stage = "all"
  THEN IF f.eof
       THEN ReturnAll([f EXCEPT !.buffer = <<>>], run.chunks \o f.buffer)
       ELSE Suspended([f EXCEPT !.buffer = <<>>],
                      [run EXCEPT !.chunks = run.chunks \o f.buffer])
  ELSE IF Available(f) < run.arg /\ ~f.eof
  THEN Suspended(Compact(f), run)
  ELSE ReturnSize(f, run.arg))

\* write(data): suspended in the write of the compressed bytes, if any.
BeginWrite(s, data, emit) ==
  IF ~_writing_mode THEN Done(Raise(s, "OSError"))
  ELSE IF s.is_closed THEN Done(Raise(s, "ValueError"))
  ELSE IF s.file = "none" THEN Done(Raise(s, "ValueError"))
  ELSE
    Bind([s EXCEPT !.crc = crc32(data, s.crc),
                   !.input_size = s.input_size + Len(data),
                   !.position = s.input_size + Len(data)],
         LAMBDA s1 :
    Bind(compress(s1.engine, data, emit), LAMBDA r :
    IF r.err THEN Done(RaiseFrom(FromEngine(s1, "zlib.error"), "OSError"))
    ELSE IF r.out # <<>>
    THEN Suspended([s1 EXCEPT !.engine = r.e],
                   Run("write", "data", 0, data, emit, r.out))
    ELSE Done([s1 EXCEPT !.engine = r.e, !.n = Len(data),
                         !.acc = s1.acc \o data])))
StepWrite(s, run) ==
  Bind(file_write(s, run.chunks), LAMBDA w :
  IF w.exc # "none" THEN Done(OSErrorOrWrapped(w))
  ELSE Done([w EXCEPT !.n = Len(run.data), !.acc = w.acc \o run.data]))

\* close(): suspended in the write of the last block, in the write of the
\* trailer and in the close of the transport.
CloseTransport(s) ==
  IF s.file # "none" /\ (s.owns_file \/ closefd)
  THEN Suspended(s, Run("close", "close", 0, <<>>, FALSE, <<>>))
  ELSE Done(s)
\* Mutation of BeginClose: the closed flag is neither tested nor set before
\* the first await.
BeginClose_unmarked(s) ==
  IF _writing_mode /\ s.file # "none"
  THEN Bind(finish(s.engine), LAMBDA r :
       IF r.err THEN Done(FromEngine(s, "zlib.error"))
       ELSE Suspended([s EXCEPT !.engine = r.e],
                      Run("close", "flush", 0, <<>>, FALSE, r.out)))
  ELSE CloseTransport(s)

BeginClose(s) ==
  IF s.is_closed THEN Done(s)
  ELSE
    Bind([s EXCEPT !.is_closed = TRUE], LAMBDA s1 :
    IF _writing_mode /\ s1.file # "none"
    THEN Bind(finish(s1.engine), LAMBDA r :
         IF r.err THEN Done(FromEngine(s1, "zlib.error"))
         ELSE IF r.out # <<>>
         THEN Suspended([s1 EXCEPT !.engine = r.e],
                        Run("close", "flush", 0, <<>>, FALSE, r.out))
         ELSE Suspended([s1 EXCEPT !.engine = r.e],
                        Run("close", "trailer", 0, <<>>, FALSE, <<>>)))
    ELSE CloseTransport(s1))
StepClose(s, run) ==
  IF run.stage = "flush"
  THEN Bind(file_write(s, run.chunks), LAMBDA w :
       IF w.exc # "none" THEN Done(w)
       ELSE Suspended(w, Run("close", "trailer", 0, <<>>, FALSE, <<>>)))
  ELSE IF run.stage = "trailer"
  THEN Bind(file_write(s, _build_gzip_trailer(s.crc, s.input_size)),
            LAMBDA w :
       IF w.exc # "none" THEN Done(w) ELSE CloseTransport(w))
  ELSE Done(file_close(s))

\* The text stream's close() up to its first await, which is in the binary
\* stream's close().
BeginTextClose(s) ==
  IF s.t_is_closed THEN Done(s)
  ELSE
    Bind([s EXCEPT !.t_is_closed = TRUE, !.cookie_cache = <<>>], LAMBDA s1 :
    IF ~_writing_mode /\ DecodeBytes(s1.decoder, TRUE).err
    THEN Done(Raise(s1, "UnicodeDecodeError"))
    ELSE IF s1.binary_file # "none"
    THEN BeginClose(IF ~_writing_mode THEN [s1 EXCEPT !.decoder = <<>>]
                    ELSE s1)
    ELSE Done(s1))

\* The suspended operation is resumed.
Resume(s, run) ==
  CASE run.op = "enter" -> StepEnter(s, run)
    [] run.op = "read" -> StepRead(s, run)
    [] run.op = "write" -> StepWrite(s, run)
    [] OTHER -> StepClose(s, run)

(* ------------------------- streams to be read -------------------------- *)
\* A valid single member, two members with zero padding between and after
\* them, two members back to back, a member holding a two-byte character,
\* and truncations of the single member.
Single == Member(<< <<1, NL>>, <<>>, <<2>> >>)
Padded == Member(<< <<1>> >>) \o <<ZeroByte, ZeroByte>>
          \o Member(<< <<NL, 2>> >>) \o <<ZeroByte>>
Adjacent == Member(<< <<1>>, <<>> >>) \o Member(<< <<2>> >>)
Wide == Member(<< <<1, LEAD>>, <<CONT>> >>)
File(data, p, kind) == [data |-> data, payload |-> p, kind |-> kind]
ValidFiles ==
  { File(Single, <<1, NL, 2>>, "valid"),
    File(Padded, <<1, NL, 2>>, "valid"),
    File(Adjacent, <<1, 2>>, "valid") }
TruncatedFiles ==
  { File(SubSeq(Single, 1, 1), <<>>, "truncated"),
    File(SubSeq(Single, 1, HdrLen + 1), <<1, NL>>, "truncated"),
    File(SubSeq(Single, 1, Len(Single) - 1), <<1, NL, 2>>, "truncated") }
WideFiles == { File(Wide, <<1, LEAD, CONT>>, "valid") }
NoFile == { File(<<>>, <<>>, "valid") }

\* <<external, closefd>>: the stream opens its own transport, or is given
\* one, which it closes (closefd) or leaves open.
OwnTransport == { <<FALSE, TRUE>> }
GivenTransports == { <<TRUE, TRUE>>, <<TRUE, FALSE>> }

(* -------------------------------- Init --------------------------------- *)
\* The fields of a new object and its transport, for the given modes,
\* layers, streams to be read, chunk sizes, fault budgets, transports and
\* cookie cache sizes.
Fields(modes, layers, files, chunks, budgets, tracks, transports, caches) ==
  /\ MAX_COOKIE_CACHE_SIZE \in caches
  /\ cookie_cache = <<>>
  /\ told = {}
  /\ track \in tracks
  /\ mode_op \in modes
  /\ layer \in layers
  /\ \E tr \in transports : external = tr[1] /\ closefd = tr[2]
  /\ seekable \in (IF external /\ ~closefd /\ mode_op = "r"
                   THEN BOOLEAN ELSE {TRUE})
  /\ chunk_size \in (IF mode_op = "r" THEN chunks ELSE {1})
  /\ \E f \in (IF mode_op = "r" THEN files ELSE NoFile) :
        /\ tdata = f.data
        /\ payload = f.payload
        /\ fkind = f.kind
  /\ budget \in budgets
  /\ tpos = 0
  /\ topen = external
  /\ tcloses = 0
  /\ file = "none"
  /\ owns_file = FALSE
  /\ engine = NoEngine
  /\ buffer = <<>>
  /\ buffer_offset = 0
  /\ is_closed = FALSE
  /\ eof = FALSE
  /\ crc = 0
  /\ input_size = 0
  /\ position = 0
  /\ binary_file = "none"
  /\ t_is_closed = FALSE
  /\ decoder = <<>>
  /\ text_buffer = <<>>
  /\ trailing_cr = FALSE
  /\ lastOp = "init"
  /\ lastExc = "none"
  /\ lastErr = NoErr
  /\ lastRet = <<>>
  /\ lastN = -1
  /\ lastArg = 0
  /\ lastWhence = SEEK_SET
  /\ lastPos = 0
  /\ got = <<>>
  /\ onlyReads = FALSE
  /\ faulted = FALSE
  /\ enters = 0
  /\ written = <<>>

\* One instance alone: there is no second one.
NoPair == streams = <<>> /\ running = <<>> /\ alone = <<>> /\ probe = <<>>

\* The state after a construction with mode "rb", "wb", "rt" or "wt" and the
\* default compression level.
InitWith(modes, layers, files, chunks, budgets, tracks, transports, caches) ==
  /\ Fields(modes, layers, files, chunks, budgets, tracks, transports, caches)
  /\ mode = <<mode_op, IF layer = "binary" THEN "b" ELSE "t">>
  /\ compresslevel = 6
  /\ init_exc = "none"
  /\ newline = "None"
  /\ NoPair

(* ------------------------------- actions ------------------------------- *)
\* An operation ran and left the object and its transport as in s.
CommitSeek(s0, op, arg, whence) ==
  \E s \in {s0} :
  /\ s.hit = (s.ioFail # 0 \/ s.engFail \/ s.decFail)
  /\ s.hit => budget > 0
  /\ budget' = IF s.hit THEN budget - 1 ELSE budget
  /\ file' = s.file
  /\ owns_file' = s.owns_file
  /\ engine' = s.engine
  /\ buffer' = s.buffer
  /\ buffer_offset' = s.buffer_offset
  /\ is_closed' = s.is_closed
  /\ eof' = s.eof
  /\ crc' = s.crc
  /\ input_size' = s.input_size
  /\ position' = s.position
  /\ tdata' = s.tdata
  /\ tpos' = s.tpos
  /\ topen' = s.topen
  /\ tcloses' = s.tcloses
  /\ binary_file' = s.binary_file
  /\ t_is_closed' = s.t_is_closed
  /\ decoder' = s.decoder
  /\ text_buffer' = s.text_buffer
  /\ trailing_cr' = s.trailing_cr
  /\ cookie_cache' = s.cookie_cache
  /\ lastOp' = op
  /\ lastArg' = arg
  /\ lastWhence' = whence
  /\ lastPos' = position
  /\ lastExc' = s.exc
  /\ lastErr' = IF s.exc = "none" THEN NoErr
                ELSE [origin |-> s.origin, first |-> s.first,
                      cause |-> s.cause]
  /\ lastRet' = IF s.exc = "none" THEN s.ret ELSE <<>>
  /\ lastN' = IF s.exc = "none" THEN s.n ELSE -1
  /\ faulted' = (faulted \/ s.hit)
  /\ enters' = IF op \in {"aenter", "text_aenter"}
               THEN enters + 1 ELSE enters
  /\ track' = track
  /\ onlyReads' = IF op \in {"aenter", "text_aenter"}
                  THEN (track /\ enters = 0 /\ s.exc = "none")
                  ELSE IF layer = "binary"
                  THEN (onlyReads /\ op = "read" /\ arg # 0)
                  ELSE (onlyReads /\ op \in {"text_read", "text_readline",
                                             "text_anext"})
  /\ got' = IF ~onlyReads' \/ op \in {"aenter", "text_aenter"} THEN <<>>
            ELSE IF s.exc = "none" THEN got \o s.ret ELSE got
  /\ written' = IF op \in {"aenter", "text_aenter"} THEN <<>>
                ELSE written \o s.acc
  /\ told' = { p \in told \cup
                      (IF op = "text_tell" /\ s.exc = "none"
                       THEN {[cookie |-> s.n, text |-> RemainingText(s)]}
                       ELSE {}) :
                p.cookie \in Cookies(s.cookie_cache) }
  /\ UNCHANGED <<cfgvars, pairvars, probe>>

Commit(s0, op, arg) == CommitSeek(s0, op, arg, SEEK_SET)

\* The faults an operation may meet: its f-th transport call raises (0: none),
\* its engine call raises; the compressor's choice to emit output at once.
FaultsIO == IF budget > 0 THEN 0..MaxIoFail ELSE {0}
FaultsEng == IF budget > 0 THEN BOOLEAN ELSE {FALSE}
Emits == IF _writing_mode THEN BOOLEAN ELSE {FALSE}
ReadSizes == {-1} \cup 0..MaxRead
WriteData == { <<>>, <<1>>, <<1, NL>> }
\* A write-mode stream takes at most MaxInput bytes.
Room(k) == _writing_mode => input_size + k <= MaxInput
\* The caller can reach the binary stream (directly, or as text.buffer).
HasBinary == layer = "binary" \/ binary_file = "set"

Enter ==
  /\ HasBinary
  /\ enters < MaxEnters
  /\ \E f \in FaultsIO : Commit(aenter(Self(f, FALSE)), "aenter", 0)

Read ==
  /\ HasBinary
  /\ \E sz \in ReadSizes, f \in FaultsIO :
       Commit(read(Self(f, FALSE), sz), "read", sz)

\* A read with a decompressor whose flush() at the end of the transport
\* raises zlib.error.
ReadFaulty ==
  /\ HasBinary
  /\ budget > 0
  /\ \E sz \in ReadSizes :
       Commit(read([Self(0, FALSE) EXCEPT !.decFail = TRUE], sz), "read", sz)

\* read(None) and read(n) for n < -1.
OtherSizes == {None, -2}
ReadOther ==
  /\ HasBinary
  /\ \E sz \in OtherSizes : Commit(read(Self(0, FALSE), sz), "read", sz)

Readline ==
  /\ HasBinary
  /\ \E limit \in ReadSizes, f \in FaultsIO :
       Commit(readline(Self(f, FALSE), limit), "readline", limit)

\* readline of the exported class, with the limits -1, None, -2 and 1.
LineLimits == {-1, None, -2, 1}
PkgReadline ==
  /\ HasBinary
  /\ \E limit \in LineLimits :
       Commit(pkg_readline(Self(0, FALSE), limit), "pkg_readline", limit)

\* readline of _binary.py with a limit of None or below -1.
ReadlineOther ==
  /\ HasBinary
  /\ \E limit \in {None, -2} :
       Commit(readline(Self(0, FALSE), limit), "readline", limit)

Aiter ==
  /\ HasBinary
  /\ Commit(aiter(Self(0, FALSE)), "aiter", 0)

Anext ==
  /\ HasBinary
  /\ \E f \in FaultsIO : Commit(anext(Self(f, FALSE)), "anext", 0)

Readlines ==
  /\ HasBinary
  /\ \E hint \in {-1, MaxRead}, f \in FaultsIO :
       Commit(readlines(Self(f, FALSE), hint), "readlines", hint)

Readinto ==
  /\ HasBinary
  /\ \E size \in 1..MaxRead, f \in FaultsIO :
       Commit(readinto(Self(f, FALSE), size), "readinto", size)

Peek ==
  /\ HasBinary
  /\ \E size \in {-1} \cup 0..MaxRead, f \in FaultsIO :
       Commit(peek(Self(f, FALSE), size), "peek", size)

SeekArgs ==
  ((0..MaxSeek) \X {SEEK_SET}) \cup ({-1, 0, 1} \X {SEEK_CUR})
  \cup {<<0, SEEK_END>>, <<-1, SEEK_SET>>}

Seek ==
  /\ HasBinary
  /\ \E a \in SeekArgs, f \in FaultsIO, e \in FaultsEng, emit \in Emits :
       /\ Room((IF a[2] = SEEK_CUR THEN position + a[1] ELSE a[1]) - input_size)
       /\ CommitSeek(seek(Self(f, e), a[1], a[2], emit), "seek",
                     IF a[2] = SEEK_CUR THEN position + a[1] ELSE a[1], a[2])

Rewind ==
  /\ HasBinary
  /\ \E f \in FaultsIO : Commit(rewind(Self(f, FALSE)), "rewind", 0)

Write ==
  /\ HasBinary
  /\ \E data \in WriteData, f \in FaultsIO, e \in FaultsEng, emit \in Emits :
       /\ Room(Len(data))
       /\ Commit(write(Self(f, e), data, emit), "write", Len(data))

Writelines ==
  /\ HasBinary
  /\ \E lines \in { <<>>, << <<1>>, <<NL>> >> },
        f \in FaultsIO, e \in FaultsEng, emit \in Emits :
       /\ Room(Len(lines))
       /\ Commit(writelines(Self(f, e), lines, emit), "writelines", Len(lines))

Flush ==
  /\ HasBinary
  /\ _writing_mode => Len(tdata) < MaxFile
  /\ \E f \in FaultsIO, e \in FaultsEng, emit \in Emits :
       Commit(flush(Self(f, e), emit), "flush", 0)

Close ==
  /\ HasBinary
  /\ \E f \in FaultsIO, e \in FaultsEng :
       Commit(close(Self(f, e)), "close", IF is_closed THEN 1 ELSE 0)

TextEnter ==
  /\ layer = "text"
  /\ enters < MaxEnters
  /\ \E f \in FaultsIO : Commit(text_aenter(Self(f, FALSE)), "text_aenter", 0)

TextRead ==
  /\ layer = "text"
  /\ \E sz \in {-1, 0, 1}, f \in FaultsIO :
       Commit(text_read(Self(f, FALSE), sz), "text_read", sz)

TextReadOther ==
  /\ layer = "text"
  /\ \E sz \in OtherSizes :
       Commit(text_read(Self(0, FALSE), sz), "text_read", sz)

TextReadline ==
  /\ layer = "text"
  /\ \E limit \in {None, -1, 1} :
       Commit(text_readline(Self(0, FALSE), limit), "text_readline", limit)

\* Text readline with a limit below -1.
TextReadlineOther ==
  /\ layer = "text"
  /\ Commit(text_readline(Self(0, FALSE), -2), "text_readline", -2)

TextAnext ==
  /\ layer = "text"
  /\ Commit(text_anext(Self(0, FALSE)), "text_anext", 0)

TextWrite ==
  /\ layer = "text"
  /\ \E data \in { <<1>>, <<WIDE>> },
        f \in FaultsIO, e \in FaultsEng, emit \in Emits :
       /\ Room(Len(encode(data)))
       /\ Commit(text_write(Self(f, e), data, emit), "text_write", Len(data))

TextClose ==
  /\ layer = "text"
  /\ \E f \in FaultsIO, e \in FaultsEng :
       Commit(text_close(Self(f, e)), "text_close",
              IF t_is_closed THEN 1 ELSE 0)

\* tell() is not called any more once the cache has outgrown MaxCache.
TextTell ==
  /\ layer = "text"
  /\ Len(cookie_cache) <= MaxCache
  /\ Commit(text_tell(Self(0, FALSE)), "text_tell", 0)

TextSeekArgs ==
  (((0..MaxCookie) \cup Cookies(cookie_cache)) \X {SEEK_SET})
  \cup ({0, 1} \X {SEEK_CUR, SEEK_END}) \cup {<<0, 99>>}

TextSeek ==
  /\ layer = "text"
  /\ \E a \in TextSeekArgs, f \in FaultsIO :
       CommitSeek(text_seek(Self(f, FALSE), a[1], a[2]), "text_seek",
                  a[1], a[2])

\* The constructor is called with the arguments chosen.
Construct ==
  /\ init_exc = "pending"
  /\ \E r \in { init(layer, mode, compresslevel) } :
       /\ init_exc' = r.exc
       /\ mode_op' = IF r.exc = "none" THEN r.op ELSE mode_op
       /\ lastOp' = "init"
  /\ UNCHANGED <<mode, compresslevel, chunk_size, external, closefd, seekable,
                 payload, fkind, layer, newline, MAX_COOKIE_CACHE_SIZE,
                 objvars, trvars, textvars, lastExc, lastErr, lastRet, lastN, lastArg,
                 lastWhence, lastPos, got, onlyReads, faulted, enters, track,
                 written, budget, told, pairvars, probe>>

\* Several tasks call methods of one stream: streams holds the one stream,
\* running what each task is doing.  A task that returned keeps the
\* exception of its call in stage.
Returned(exc) == Run("done", exc, 0, <<>>, FALSE, <<>>)
InFlight(r) == r.op \notin {"idle", "done"}
Settle(t, b) ==
  /\ streams' = << Fresh(b.s) >>
  /\ running' = [running EXCEPT
                   ![t] = IF InFlight(b.run) THEN b.run
                          ELSE Returned(b.s.exc)]
  /\ UNCHANGED <<cfgvars, objvars, trvars, histvars, textvars, alone, probe>>

\* The stream is entered before the tasks start, and written to while no
\* call is in flight.
TaskEnter ==
  /\ Len(streams) = 1 /\ \A t \in DOMAIN running : running[t] = Idle
  /\ IF layer = "text" THEN streams[1].binary_file = "none"
     ELSE streams[1].file = "none"
  /\ streams' = << Fresh(IF layer = "text" THEN text_aenter(streams[1])
                         ELSE aenter(streams[1])) >>
  /\ UNCHANGED <<cfgvars, objvars, trvars, histvars, textvars, running,
                 alone, probe>>

TaskWrite ==
  /\ Len(streams) = 1 /\ \A t \in DOMAIN running : ~InFlight(running[t])
  /\ streams[1].input_size < MaxInput
  /\ \E emit \in Emits :
       streams' = << Fresh(IF layer = "text"
                           THEN text_write(streams[1], <<1>>, emit)
                           ELSE write(streams[1], <<1>>, emit)) >>
  /\ UNCHANGED <<cfgvars, objvars, trvars, histvars, textvars, running,
                 alone, probe>>

\* Task t calls close(): it runs to the first transport await.
TaskClose ==
  /\ Len(streams) = 1
  /\ \E t \in DOMAIN running :
       /\ ~InFlight(running[t])
       /\ Settle(t, IF layer = "text" THEN BeginTextClose(streams[1])
                    ELSE BeginClose(streams[1]))

\* The transport call task t waits for returns.
TaskResume ==
  /\ Len(streams) = 1
  /\ \E t \in DOMAIN running :
       /\ InFlight(running[t])
       /\ Settle(t, Resume(streams[1], running[t]))

\* The probe is tried on the next longer prefix of the stream.
ProbePrefix ==
  /\ probe # <<>>
  /\ probe.n < Len(probe.data)
  /\ probe' = [probe EXCEPT
                 !.n = probe.n + 1,
                 !.res = _try_parse_gzip_header_mtime(
                           SubSeq(probe.data, 1, probe.n + 1))]
  /\ UNCHANGED <<cfgvars, objvars, trvars, histvars, textvars, pairvars>>

\* _fill_buffer reads the next chunk_size bytes of the stream.
FillProbe ==
  /\ probe # <<>>
  /\ probe.fed < Len(probe.data)
  /\ \E chunk \in { SubSeq(probe.data, probe.fed + 1,
                            Min(Len(probe.data), probe.fed + chunk_size)) } :
       probe' = [ProbeChunk(probe, chunk) EXCEPT
                   !.fed = probe.fed + Len(chunk)]
  /\ UNCHANGED <<cfgvars, objvars, trvars, histvars, textvars, pairvars>>

\* Instance i begins an operation, which leaves it as b; the same
\* operation, run to its end, leaves the instance taken alone as a.
PairBegin(i, b, a) ==
  /\ streams' = [streams EXCEPT ![i] = b.s]
  /\ running' = [running EXCEPT ![i] = b.run]
  /\ alone' = [alone EXCEPT ![i] = a]
  /\ UNCHANGED <<cfgvars, objvars, trvars, histvars, textvars, probe>>

PairEnter ==
  \E i \in DOMAIN streams :
    /\ running[i].op = "idle"
    /\ streams[i].file = "none" /\ ~streams[i].is_closed
    /\ PairBegin(i, BeginEnter(Fresh(Own(streams, i))),
                 aenter(Fresh(alone[i])))

PairRead ==
  \E i \in DOMAIN streams, sz \in {-1, 1} :
    /\ running[i].op = "idle"
    /\ PairBegin(i, BeginRead(Fresh(Own(streams, i)), sz),
                 read(Fresh(alone[i]), sz))

PairWrite ==
  \E i \in DOMAIN streams, emit \in Emits :
    /\ running[i].op = "idle"
    /\ _writing_mode => streams[i].input_size < MaxInput
    /\ PairBegin(i, BeginWrite(Fresh(Own(streams, i)), <<i>>, emit),
                 write(Fresh(alone[i]), <<i>>, emit))

PairClose ==
  \E i \in DOMAIN streams :
    /\ running[i].op = "idle"
    /\ PairBegin(i, BeginClose(Fresh(Own(streams, i))),
                 close(Fresh(alone[i])))

\* The transport call instance i waits for returns.
PairResume ==
  \E i \in DOMAIN streams :
    /\ running[i].op # "idle"
    /\ \E b \in { Resume(Own(streams, i), running[i]) } :
         /\ streams' = [streams EXCEPT ![i] = b.s]
         /\ running' = [running EXCEPT ![i] = b.run]
    /\ UNCHANGED <<cfgvars, objvars, trvars, histvars, textvars, alone,
                   probe>>

\* The stream is entered for the first time.
Open == enters = 0 /\ Enter
TextOpen == enters = 0 /\ TextEnter

(* --------------------------- specifications ---------------------------- *)
\* Every operation of the binary stream in both modes, entered once, on a
\* transport that does not fail.
Init == InitWith({"r", "w"}, {"binary"},
                 { File(Single, <<1, NL, 2>>, "valid") }, {1, MaxChunk},
                 {0}, {FALSE},
                 OwnTransport \cup { <<TRUE, FALSE>> }, {MaxCache})
Next ==
  \/ Open \/ Read \/ Readline \/ Readlines \/ Readinto \/ Peek \/ Seek
  \/ Rewind \/ Write \/ Writelines \/ Flush \/ Close
Spec == Init /\ [][Next]_vars

\* Reads alone, over valid and truncated archives, for every chunk size.
InitReads == InitWith({"r"}, {"binary"}, ValidFiles \cup TruncatedFiles,
                      1..MaxChunk, {0}, {TRUE},
                      OwnTransport \cup GivenTransports, {MaxCache})
NextReads == Open \/ Read
SpecReads == InitReads /\ [][NextReads]_vars

\* The reading operations that move or inspect the position.
InitRead == InitWith({"r"}, {"binary"}, ValidFiles, 1..MaxChunk, {0}, {FALSE},
                     OwnTransport \cup GivenTransports, {MaxCache})
NextRead == Open \/ Read \/ Readline \/ Peek \/ Seek
SpecRead == InitRead /\ [][NextRead]_vars

\* Writing, flushing and closing a stream.
InitWrite == InitWith({"w"}, {"binary"}, NoFile, {1}, {0}, {FALSE},
                      OwnTransport \cup GivenTransports, {MaxCache})
NextWrite == Open \/ Write \/ Flush \/ Close
SpecWrite == InitWrite /\ [][NextWrite]_vars

\* The life of a write-mode stream: entered, written, closed, and entered
\* or used again.
NextLife == Enter \/ Write \/ Flush \/ Seek \/ Close
SpecLife == InitWrite /\ [][NextLife]_vars

\* Closing binary and text streams, with one transport or engine fault.
InitClose == InitWith({"r", "w"}, {"binary", "text"},
                      { File(Single, <<1, NL, 2>>, "valid") }, {MaxChunk},
                      {0, MaxFaults}, {FALSE},
                      OwnTransport \cup GivenTransports, {MaxCache})
NextClose ==
  \/ Open \/ TextOpen \/ Read \/ TextRead \/ Write \/ TextWrite
  \/ Close \/ TextClose
SpecClose == InitClose /\ [][NextClose]_vars

\* A stream that is entered again.
InitReenter == InitWith({"r", "w"}, {"binary"},
                        { File(Single, <<1, NL, 2>>, "valid") }, {1, MaxChunk},
                        {0}, {FALSE}, OwnTransport \cup { <<TRUE, FALSE>> }, {MaxCache})
NextReenter == Enter \/ Read \/ Seek \/ Rewind \/ Write \/ Close
SpecReenter == InitReenter /\ [][NextReenter]_vars

\* Text streams that are read, told and sought, for every cookie cache
\* size, next to binary streams over the same files.
TextFiles == { File(Single, <<1, NL, 2>>, "valid"),
               File(Wide, <<1, LEAD, CONT>>, "valid") }
InitText == InitWith({"r"}, {"binary", "text"}, TextFiles, {1, MaxChunk},
                     {0}, {FALSE}, OwnTransport, 1..MaxCache)
NextText ==
  \/ Open \/ TextOpen \/ TextRead \/ TextTell \/ TextSeek \/ TextClose
  \/ (layer = "binary" /\ (Read \/ Seek))
SpecText == InitText /\ [][NextText]_vars

\* Reading with every spelling of the size argument, in both layers (the
\* binary stream under a text stream is read by the text stream alone).
InitSizes == InitWith({"r"}, {"binary", "text"}, ValidFiles \cup WideFiles,
                      1..MaxChunk, {0}, {FALSE}, OwnTransport, {MaxCache})
NextSizes ==
  \/ Open \/ TextOpen \/ TextRead \/ TextReadOther \/ Close \/ TextClose
  \/ (layer = "binary" /\ (Read \/ ReadOther \/ Peek \/ Readline))
SpecSizes == InitSizes /\ [][NextSizes]_vars

\* Text streams read by characters and by lines in every newline mode, over
\* payloads with CRLF, lone CR and a two-byte character.
CrLf == Member(<< <<1, CR>>, <<NL, 2>> >>)
CrCrLf == Member(<< <<CR>>, <<CR, NL>> >>)
EndCr == Member(<< <<1, CR>> >>)
WideCrLf == Member(<< <<LEAD, CONT, CR>>, <<NL>> >>)
LineFiles == { File(CrLf, <<1, CR, NL, 2>>, "valid"),
               File(CrCrLf, <<CR, CR, NL>>, "valid"),
               File(EndCr, <<1, CR>>, "valid"),
               File(WideCrLf, <<LEAD, CONT, CR, NL>>, "valid") }
Newlines == {"None", "", "\n", "\r", "\r\n"}
InitLines ==
  /\ Fields({"r"}, {"text"}, LineFiles, 1..MaxChunk, {0}, {TRUE},
            OwnTransport, {MaxCache})
  /\ newline \in Newlines
  /\ mode = <<"r", "t">>
  /\ compresslevel = 6
  /\ init_exc = "none"
  /\ NoPair
NextLines == TextOpen \/ TextRead \/ TextReadline \/ TextAnext
SpecLines == InitLines /\ [][NextLines]_vars

\* Failures of the engine and of the transport: valid streams, a member
\* whose trailer does not match its data, a member followed by bytes that
\* are no gzip header.
BadTrailer == Header \o << Tok("E", <<1>>, 0) >>
              \o _build_gzip_trailer(crc32(<<2>>, 0), 1)
BadSecond == Member(<< <<1>> >>) \o << Tok("D", <<2>>, 0) >>
CorruptFiles == { File(BadTrailer, <<1>>, "corrupt"),
                  File(BadSecond, <<1>>, "corrupt") }
InitErrors == InitWith({"r", "w"}, {"binary"}, ValidFiles \cup CorruptFiles,
                       1..MaxChunk, {MaxFaults}, {FALSE},
                       OwnTransport \cup GivenTransports, {MaxCache})
NextErrors ==
  \/ Open \/ Read \/ ReadFaulty \/ Readline \/ Peek
  \/ Write \/ Flush \/ Close
SpecErrors == InitErrors /\ [][NextErrors]_vars

\* Lines read from a binary stream, by both implementations of readline,
\* between reads and peeks.
InitReadline == InitWith({"r"}, {"binary"}, ValidFiles, 1..MaxChunk, {0},
                         {FALSE}, OwnTransport, {MaxCache})
NextReadline ==
  Open \/ Read \/ Peek \/ Readline \/ ReadlineOther \/ PkgReadline
SpecReadline == InitReadline /\ [][NextReadline]_vars

\* Lines read with no limit and with negative limits, in both layers.
InitLimits == InitWith({"r"}, {"binary", "text"}, ValidFiles, 1..MaxChunk,
                       {0}, {FALSE}, OwnTransport, {MaxCache})
NextLimits ==
  \/ Open \/ TextOpen \/ TextRead \/ TextReadline \/ TextReadlineOther
  \/ (layer = "binary" /\ (Read \/ Readline \/ ReadlineOther \/ PkgReadline))
SpecLimits == InitLimits /\ [][NextLimits]_vars

\* Two tasks that close one write-mode stream, binary or text.
InitTasks ==
  /\ Fields({"w"}, {"binary", "text"}, NoFile, {1}, {0}, {FALSE},
            OwnTransport \cup GivenTransports, {MaxCache})
  /\ mode = <<mode_op, IF layer = "binary" THEN "b" ELSE "t">>
  /\ compresslevel = 6
  /\ init_exc = "none"
  /\ newline = "None"
  /\ streams = << Self(0, FALSE) >>
  /\ running = [t \in 1..2 |-> Idle]
  /\ alone = <<>>
  /\ probe = <<>>
NextTasks == TaskEnter \/ TaskWrite \/ TaskClose \/ TaskResume
SpecTasks == InitTasks /\ [][NextTasks]_vars

\* The header probe on streams that begin with a valid header with every
\* combination of optional fields, read by prefixes and by chunks.
MTimes == {0, 1, 257}
Extras == { <<>>, <<0>>, <<7, 0>> }
DeflateBytes == <<3, 0, 7>>
Headers ==
  { [h |-> GzipHeader(2 * f, m, e, n, <<7>>, <<0, 5>>), mt |-> m] :
      f \in 0..15, m \in MTimes, e \in Extras, n \in { <<>>, <<7>> } }
InitProbe ==
  /\ Fields({"r"}, {"binary"}, NoFile, 1..MaxChunk, {0}, {FALSE},
            OwnTransport, {MaxCache})
  /\ mode = <<"r", "b">>
  /\ compresslevel = 6
  /\ init_exc = "none"
  /\ newline = "None"
  /\ streams = <<>> /\ running = <<>> /\ alone = <<>>
  /\ \E hd \in Headers :
       probe = [data |-> hd.h \o DeflateBytes, hlen |-> Len(hd.h),
                mt |-> hd.mt, n |-> 0,
                res |-> _try_parse_gzip_header_mtime(<<>>),
                fed |-> 0, buf |-> <<>>, mtime |-> None]
NextProbe == ProbePrefix \/ FillProbe
SpecProbe == InitProbe /\ [][NextProbe]_vars

\* Two instances over two transports, their operations interleaved at the
\* transport calls.
PairFiles == << Single, Padded >>
InitPair ==
  /\ Fields({"r", "w"}, {"binary"}, NoFile, {1, MaxChunk}, {0}, {FALSE},
            OwnTransport \cup GivenTransports, {MaxCache})
  /\ mode = <<mode_op, "b">>
  /\ compresslevel = 6
  /\ init_exc = "none"
  /\ newline = "None"
  /\ streams = [i \in 1..2 |->
                  [Self(0, FALSE) EXCEPT
                     !.tdata = IF mode_op = "r" THEN PairFiles[i] ELSE <<>>]]
  /\ running = [i \in 1..2 |-> Idle]
  /\ alone = streams
  /\ probe = <<>>
NextPair == PairEnter \/ PairRead \/ PairWrite \/ PairClose \/ PairResume
SpecPair == InitPair /\ [][NextPair]_vars

\* Iteration over a binary stream.
InitIter == InitWith({"r", "w"}, {"binary"}, ValidFiles, 1..MaxChunk, {0},
                     {FALSE}, OwnTransport \cup GivenTransports, {MaxCache})
NextIter == Open \/ Aiter \/ Anext \/ Read \/ Close
SpecIter == InitIter /\ [][NextIter]_vars

\* Construction with every mode string of up to MaxMode characters and
\* compression levels inside and outside the valid range.
Alphabet == {"r", "w", "a", "x", "b", "t", "+", "y"}
Modes == UNION { [1..n -> Alphabet] : n \in 0..MaxMode }
Levels == {-1, 0, 9, 10}
InitCtor ==
  /\ Fields({"r"}, {"binary", "text"}, NoFile, {1}, {0}, {FALSE},
            OwnTransport, {MaxCache})
  /\ mode \in Modes
  /\ compresslevel \in Levels
  /\ init_exc = "pending"
  /\ newline = "None"
  /\ NoPair
NextCtor == Construct
SpecCtor == InitCtor /\ [][NextCtor]_vars

(* ------------------------------- claims -------------------------------- *)
IsPrefix(a, b) == Len(a) <= Len(b) /\ a = SubSeq(b, 1, Len(a))

\* C1: on a valid gzip stream with payload P, for every chunk size and every
\* sequence of read(n) calls (n > 0 or n = -1) made after entering the stream,
\* no read raises, the bytes returned so far are a prefix of P, and once a
\* read returns empty the concatenation of the returned bytes equals P.
C1_ReadsYieldPayload ==
  (fkind = "valid" /\ onlyReads) =>
     /\ lastExc = "none"
     /\ IsPrefix(got, payload)
     /\ (lastOp = "read" /\ lastRet = <<>>) => got = payload

\* C1 witness: with chunk size 2, single-byte reads of the one-member stream
\* have delivered its whole payload and the last one returned empty.
C1_Witness ==
  /\ fkind = "valid" /\ onlyReads /\ tdata = Single /\ chunk_size = 2
  /\ lastOp = "read" /\ lastArg = 1 /\ lastExc = "none" /\ lastRet = <<>>
  /\ got = <<1, NL, 2>>

\* C3: a transport holding several members, with zero bytes between or after
\* them, is read as one stream: for every chunk size a read(-1) made after
\* any reads returns all that remains of payload(M1) + ... + payload(Mk),
\* and sized reads deliver the same bytes in order until one returns empty.
C3_MultiMemberTransparent ==
  (tdata \in {Padded, Adjacent} /\ onlyReads /\ lastOp = "read") =>
     /\ lastExc = "none"
     /\ lastArg = -1 => got = payload
     /\ lastRet = <<>> => got = payload
     /\ lastRet # <<>> => got = SubSeq(payload, 1, position)

\* C3 witness: the padded two-member stream, read in chunks of 2 so that the
\* padding spans a chunk boundary, after a read(1) and a read(-1).
C3_Witness ==
  /\ tdata = Padded /\ chunk_size = 2 /\ onlyReads
  /\ lastOp = "read" /\ lastArg = -1 /\ lastRet = <<NL, 2>>
  /\ got = <<1, NL, 2>>

\* C4: when the transport ends before the current member is complete, a read
\* that reaches that point raises BadGzipFile; it never returns normally
\* with the end of the stream reached.
C4_TruncatedRaises ==
  (fkind = "truncated" /\ lastOp = "read" /\ eof) => lastExc = "BadGzipFile"

CountK(data, k) == Cardinality({ i \in DOMAIN data : data[i].k = k })
Inflated(data) == decompress(decompressobj, data)

\* C2: on a write-mode stream that was entered and is not closed every
\* write(d) returns len(d); no flush ends the compressed stream (no final
\* block and no trailer reach the transport before close), and what a flush
\* leaves on the transport inflates to all bytes written so far; after
\* close the transport holds one complete gzip member whose payload is
\* d1 + ... + dk.
C2_WriteFlushCloseRoundTrip ==
  (_writing_mode /\ file = "set") =>
     /\ (lastOp = "write" /\ ~is_closed) =>
           (lastExc = "none" /\ lastN = lastArg)
     /\ ~is_closed =>
           CountK(tdata, "E") + CountK(tdata, "Tc") + CountK(tdata, "Ts") = 0
     /\ (lastOp = "flush" /\ ~is_closed) =>
           /\ lastExc = "none"
           /\ ~Inflated(tdata).err
           /\ Inflated(tdata).e.st = "body"
           /\ Inflated(tdata).out = written
     /\ (lastOp = "close" /\ lastArg = 0) =>
           /\ lastExc = "none"
           /\ ~Inflated(tdata).err
           /\ Inflated(tdata).e.st = "end"
           /\ Inflated(tdata).e.unused = <<>>
           /\ Inflated(tdata).out = written

\* C2 witness: two writes with a flush that emitted a block between them,
\* then close.
C2_Witness ==
  /\ _writing_mode /\ file = "set" /\ lastOp = "close" /\ lastArg = 0
  /\ lastExc = "none" /\ written = <<1, 1>>
  /\ tdata = Header \o << Tok("D", <<1>>, 0), Tok("E", <<1>>, 0) >>
               \o _build_gzip_trailer(crc32(<<1, 1>>, 0), 2)

\* C5: close() is idempotent on binary and text streams: a close() of a
\* stream that is already closed raises nothing, writes nothing to the
\* transport, does not call the transport's close and changes no state;
\* the final block and the trailer reach the transport at most once, and
\* exactly once when the first close() of an entered write stream succeeds.
C5_CloseIdempotent ==
  /\ [][ ((lastOp' = "close" /\ is_closed)
          \/ (lastOp' = "text_close" /\ t_is_closed)) =>
            (lastExc' = "none" /\ UNCHANGED <<objvars, trvars, textvars>>) ]_vars
  /\ [][ (lastOp' \in {"close", "text_close"} /\ ~is_closed /\ is_closed'
          /\ _writing_mode /\ file = "set" /\ lastExc' = "none") =>
            (CountK(tdata', "E") = 1 /\ CountK(tdata', "Tc") = 1
             /\ CountK(tdata', "Ts") = 1) ]_vars
  /\ [](CountK(tdata, "E") <= 1 /\ CountK(tdata, "Tc") <= 1
        /\ CountK(tdata, "Ts") <= 1 /\ tcloses <= 1)

\* C5 witness: a text write stream that owns its transport was closed, with
\* the trailer written and the transport closed once, and closed again.
C5_Witness ==
  /\ layer = "text" /\ _writing_mode /\ lastOp = "text_close" /\ lastArg = 1
  /\ lastExc = "none" /\ ~faulted /\ is_closed /\ t_is_closed
  /\ CountK(tdata, "Ts") = 1 /\ tcloses = 1 /\ written # <<>>

\* C6: when the first close() of a binary stream fails partway (the final
\* engine flush, a transport write or the transport's close raises), the
\* stream is flagged closed and the exception reaches the caller; a later
\* close() raises nothing and retries neither the flush nor the trailer nor
\* the transport's close.
C6_FailedCloseStaysClosed ==
  /\ [][ (lastOp' = "close" /\ ~is_closed /\ ~faulted /\ faulted') =>
            (is_closed' /\ lastExc' \in {"OSError", "zlib.error"}) ]_vars
  /\ [][ (lastOp' = "close" /\ is_closed /\ faulted) =>
            (lastExc' = "none" /\ engine' = engine /\ tdata' = tdata
             /\ tcloses' = tcloses /\ is_closed') ]_vars

\* C6 witness: the trailer write of the first close() failed after the
\* final flush, and close() was called again: no trailer on the transport.
C6_Witness ==
  /\ layer = "binary" /\ _writing_mode /\ file = "set" /\ faulted
  /\ lastOp = "close" /\ lastArg = 1 /\ lastExc = "none" /\ is_closed
  /\ engine.st = "finished" /\ CountK(tdata, "Ts") = 0

\* C7: on a closed binary stream every read, readline, readlines, write,
\* writelines, flush, seek and peek raises and returns no data.
C7_ClosedStreamRejects ==
  (is_closed /\ lastOp \in {"read", "readline", "readlines", "write",
                             "writelines", "flush", "seek", "peek"}) =>
     (lastExc # "none" /\ lastRet = <<>> /\ lastN = -1)

\* C8: an operation attempted in the wrong mode (write, writelines on a
\* read-mode stream; read, readline, peek, readinto, rewind on a write-mode
\* stream) raises OSError, performs no transport I/O and leaves CRC, input
\* size, position, buffer, EOF flag and every other field unchanged.
C8_WrongModeRejected ==
  [][ ((mode_op = "r" /\ lastOp' \in {"write", "writelines"})
       \/ (mode_op = "w" /\ lastOp' \in {"read", "readline", "peek",
                                           "readinto", "rewind"})) =>
        (lastExc' = "OSError" /\ lastRet' = <<>>
         /\ UNCHANGED <<objvars, trvars>>) ]_vars

\* C8 witness: rewind() was refused on an open write stream at position 0,
\* where a seek to 0 would have succeeded.
C8_Witness ==
  /\ mode_op = "w" /\ file = "set" /\ ~is_closed /\ position = 0
  /\ lastOp = "rewind" /\ lastExc = "OSError"

Rest(p) == SubSeq(payload, p + 1, Len(payload))

\* C9: in read mode, across read, readline, peek and seek calls on an
\* entered stream, tell() counts the payload bytes delivered or skipped:
\* a read or readline returns the payload bytes starting at the offset
\* tell() reported before it and advances tell() by their number (read(-1)
\* to the end, read(n) by min(n, bytes left)); a seek leaves tell() at the
\* offset it returns, within the payload; peek returns bytes found at
\* tell() and does not change it; a call that raises does not change it.
C9_TellCountsDelivered ==
  [][ (mode_op = "r" /\ file = "set"
       /\ lastOp' \in {"read", "readline", "peek", "seek"}) =>
        /\ lastExc' # "none" => position' = position
        /\ (lastExc' = "none" /\ lastOp' \in {"read", "readline"}) =>
              /\ IsPrefix(lastRet', Rest(position))
              /\ position' = position + Len(lastRet')
        /\ (lastOp' = "read" /\ lastArg' = -1) => position' = Len(payload)
        /\ (lastOp' = "read" /\ lastArg' >= 0) =>
              Len(lastRet') = Min(lastArg', Len(payload) - position)
        /\ (lastOp' = "readline" /\ lastArg' # 0) =>
              (lastRet' = <<>> <=> position = Len(payload))
        /\ lastOp' = "peek" =>
              (position' = position /\ IsPrefix(lastRet', Rest(position)))
        /\ (lastOp' = "seek" /\ lastExc' = "none") =>
              (position' = lastN'
               /\ position' = Min(lastArg', Len(payload))) ]_vars

\* C9 witness: on the padded two-member stream read in chunks of 1, two
\* payload bytes were delivered or skipped and a peek(1) then returned the
\* third payload byte with tell() still 2.
C9_Witness ==
  /\ mode_op = "r" /\ tdata = Padded /\ chunk_size = 1 /\ seekable
  /\ lastOp = "peek" /\ lastArg = 1 /\ lastRet = <<2>> /\ position = 2
  /\ tpos < Len(tdata)

\* C10: the position of a binary stream decreases only in a successful
\* seek or rewind of a read-mode stream, and such a step leaves the stream
\* as a fresh start does: the buffer holds only payload bytes found at the
\* new position, the decompressor is the one a new decompressor becomes on
\* the transport bytes read since, and the EOF flag is set only if the
\* transport was read to its end again.
C10_PositionMonotone ==
  [][ position' < position =>
        /\ mode_op = "r" /\ lastOp' \in {"seek", "rewind"}
        /\ lastExc' = "none"
        /\ IsPrefix(SubSeq(buffer', buffer_offset' + 1, Len(buffer')),
                    Rest(position'))
        /\ engine' = Inflated(SubSeq(tdata, 1, tpos')).e
        /\ eof' => tpos' = Len(tdata) ]_vars

\* C11: in every reachable state of a binary read stream
\* 0 <= buffer_offset <= len(buffer), and when a read, readline or seek has
\* consumed the last buffered byte the buffer is empty and buffer_offset is 0
\* when the operation returns.
C11_BufferOffsetInBounds ==
  mode_op = "r" =>
     /\ 0 <= buffer_offset /\ buffer_offset <= Len(buffer)
     /\ (lastOp \in {"read", "readline", "seek"}
         /\ buffer_offset >= Len(buffer)) =>
           (buffer = <<>> /\ buffer_offset = 0)

\* C11 witness: with chunk size 3 the first chunk of the one-member stream
\* inflates to two bytes; seek(2) consumed both and left the buffer reset.
C11_Witness ==
  /\ mode_op = "r" /\ tdata = Single /\ chunk_size = 3 /\ tpos = 3 /\ ~eof
  /\ lastOp = "seek" /\ lastArg = 2 /\ lastExc = "none" /\ position = 2
  /\ buffer = <<>> /\ buffer_offset = 0

\* The read stream as a fresh start leaves it, and after skipping t bytes.
AtStart ==
  [Self(0, FALSE) EXCEPT !.tpos = 0, !.engine = decompressobj, !.buffer = <<>>,
                         !.buffer_offset = 0, !.eof = FALSE, !.position = 0]
Skipped(t) == _consume_bytes(AtStart, t)

C13_TellSeekRoundTrip ==
  /\ [][ (layer = "binary" /\ mode_op = "r" /\ lastOp' = "seek"
          /\ lastWhence' = SEEK_SET /\ lastArg' = position) =>
           /\ UNCHANGED <<objvars, trvars>>
           /\ file = "set" => (lastExc' = "none" /\ lastN' = position) ]_vars
  /\ [][ (layer = "text" /\ mode_op = "r"
          /\ lastOp = "text_tell" /\ lastExc = "none"
          /\ lastOp' = "text_seek" /\ lastWhence' = SEEK_SET
          /\ lastArg' = lastN) =>
           /\ lastExc' = "none" /\ lastN' = lastN
           /\ UNCHANGED <<objvars, trvars, textvars>> ]_vars

\* C13 witness: a text stream read in chunks of 3 delivered one character
\* and holds two more in its text buffer; seek() was called with the cookie
\* of this very position, whose snapshot is in the cache.
C13_Witness ==
  /\ layer = "text" /\ tdata = Single /\ chunk_size = 3 /\ ~t_is_closed
  /\ lastOp = "text_seek" /\ lastWhence = SEEK_SET /\ lastExc = "none"
  /\ lastArg = 2 * position /\ lastN = lastArg /\ lastPos = position
  /\ text_buffer = <<NL, 2>>
  /\ lastArg \in Cookies(cookie_cache)
  /\ Cached(cookie_cache, lastArg).text_buffer = text_buffer

\* C14: in a text read stream, for a cookie c returned by an earlier tell()
\* and still in the cache, seek(c) returns the stream to the position where
\* that tell() was made: the text returned by the reads after the seek is
\* the text that followed that tell(), whatever read and tell calls were
\* made in between.
C14_SeekReturnsToTell ==
  (layer = "text" /\ mode_op = "r" /\ ~t_is_closed
   /\ lastOp = "text_seek" /\ lastWhence = SEEK_SET /\ lastExc = "none") =>
     \A p \in told :
        p.cookie = lastArg => RemainingText(Self(0, FALSE)) = p.text

\* The text a payload decodes to under universal newlines.
TextOf(p) == UniversalNL(DecodeBytes(p, TRUE).text)

C16_OnlySeekSet ==
  [][ (layer = "text" /\ binary_file = "set" /\ lastOp' = "text_seek"
       /\ lastWhence' # SEEK_SET) =>
        /\ lastExc' \in {"OSError", "UnsupportedOperation"}
        /\ UNCHANGED <<objvars, trvars, textvars>> ]_vars

\* C17: after any sequence of tell, read and seek calls on a text stream the
\* cookie cache holds at most MAX_COOKIE_CACHE_SIZE entries, for every
\* positive value of that bound; a tell() that finds the cache full evicts
\* the oldest-inserted half before it stores the new snapshot; the cache is
\* empty after close.
C17_CookieCacheBounded ==
  /\ [](Len(cookie_cache) <= MAX_COOKIE_CACHE_SIZE)
  /\ [][ (lastOp' = "text_tell" /\ lastExc' = "none"
          /\ Len(cookie_cache) >= MAX_COOKIE_CACHE_SIZE) =>
           /\ Len(cookie_cache') <= Len(cookie_cache) + 1
                                    - (MAX_COOKIE_CACHE_SIZE \div 2)
           /\ \A i \in 1..(MAX_COOKIE_CACHE_SIZE \div 2) :
                cookie_cache[i].cookie \in Cookies(cookie_cache') =>
                  cookie_cache[i].cookie = lastN' ]_vars
  /\ [][ (lastOp' = "text_close" /\ ~t_is_closed) => cookie_cache' = <<>> ]_vars

\* C18: in write mode a seek to an absolute or current-relative target at
\* or above the position feeds exactly target - position zero bytes through
\* write (they count in CRC and input size) and returns position = target;
\* a target below the position raises and writes nothing; a seek relative
\* to the end raises and writes nothing.
C18_WriteSeekZeroFills ==
  [][ (mode_op = "w" /\ file = "set" /\ ~is_closed /\ lastOp' = "seek") =>
        /\ (lastWhence' \in {SEEK_SET, SEEK_CUR} /\ lastArg' >= position) =>
              /\ lastExc' = "none"
              /\ lastN' = lastArg' /\ position' = lastArg'
              /\ written' = written \o Zeros(lastArg' - position)
              /\ input_size' = input_size + (lastArg' - position)
              /\ crc' = crc32(Zeros(lastArg' - position), crc)
        /\ (lastWhence' = SEEK_END \/ lastArg' < position) =>
              /\ lastExc' \in {"ValueError", "OSError"}
              /\ written' = written
              /\ UNCHANGED <<objvars, trvars>> ]_vars

\* C18 witness: seek(2) on a fresh write stream fed two zero bytes, one
\* zero chunk at a time.
C18_Witness ==
  /\ mode_op = "w" /\ file = "set" /\ ~is_closed
  /\ lastOp = "seek" /\ lastWhence = SEEK_SET /\ lastPos = 0 /\ lastArg = 2
  /\ lastExc = "none" /\ lastN = 2 /\ position = 2 /\ input_size = 2
  /\ written = <<0, 0>> /\ crc = crc32(<<0, 0>>, 0)

\* C19: when a write-mode stream is closed, the trailer is the CRC-32 of the
\* concatenation of all bytes accepted by write since open (the zero padding
\* of seek included), followed by the count of those bytes reduced modulo
\* 2^32 (SizeMod in the model); after every write the position equals that
\* count, not reduced.
C19_TrailerCrcAndSize ==
  (mode_op = "w" /\ file = "set" /\ lastExc = "none") =>
     /\ (lastOp \in {"write", "writelines", "seek"} /\ ~is_closed) =>
           /\ position = Len(written) /\ input_size = Len(written)
           /\ crc = crc32(written, 0)
     /\ (lastOp = "close" /\ lastArg = 0) =>
           /\ Len(tdata) >= 2
           /\ SubSeq(tdata, Len(tdata) - 1, Len(tdata)) =
                << Tok("Tc", <<>>, crc32(written, 0)),
                   Tok("Ts", <<>>, Len(written) % SizeMod) >>

\* C19 witness: one byte was written and a seek padded one zero; the count 2
\* wraps to 0 in the trailer that close() wrote.
C19_Witness ==
  /\ mode_op = "w" /\ file = "set" /\ lastOp = "close" /\ lastArg = 0
  /\ lastExc = "none" /\ written = <<1, 0>> /\ Len(written) >= SizeMod
  /\ position = 2
  /\ tdata[Len(tdata)] = Tok("Ts", <<>>, 0)
  /\ tdata[Len(tdata) - 1] = Tok("Tc", <<>>, crc32(<<1, 0>>, 0))

\* C20: close() closes the underlying transport exactly when the stream
\* opened the transport itself or was told to own a supplied one (closefd);
\* with a supplied transport and closefd unset or false the stream never
\* calls the transport's close, though the final flush and the trailer are
\* still written to it.  The action part is about the close that acts: the
\* first close of an entered stream, completing without an exception.
C20_TransportOwnership ==
  /\ []((external /\ ~closefd) => (tcloses = 0 /\ topen))
  /\ [][ (lastOp' \in {"close", "text_close"} /\ file = "set" /\ ~is_closed
          /\ ~t_is_closed /\ lastExc' = "none") =>
           /\ tcloses' = tcloses + (IF ~external \/ closefd THEN 1 ELSE 0)
           /\ topen' = (external /\ ~closefd)
           /\ _writing_mode =>
                (CountK(tdata', "E") = 1 /\ CountK(tdata', "Ts") = 1) ]_vars

\* C20 witness: a write stream on a supplied transport without closefd was
\* closed: the trailer is on the transport, which was not closed.
C20_Witness ==
  /\ external /\ ~closefd /\ _writing_mode /\ file = "set"
  /\ lastOp = "close" /\ lastArg = 0 /\ lastExc = "none" /\ is_closed
  /\ written # <<>> /\ CountK(tdata, "Ts") = 1 /\ tcloses = 0 /\ topen

\* C21: read(0) on an open binary or text read stream returns an empty
\* result, reads nothing from the transport and leaves buffer, offset,
\* position, EOF flag and text buffer unchanged; read(None) and read(n),
\* n < 0, leave the stream exactly as read(-1) would and return all the
\* data that remained.
C21_ReadZeroAndAll ==
  /\ [][ (mode_op = "r" /\ lastOp' \in {"read", "text_read"} /\ lastArg' = 0
          /\ lastExc' = "none") =>
           /\ lastRet' = <<>>
           /\ UNCHANGED <<objvars, trvars, textvars>> ]_vars
  /\ [][ (mode_op = "r" /\ lastOp' = "read"
          /\ (lastArg' < 0 \/ lastArg' = None)) =>
           /\ lastExc' = read(Self(0, FALSE), -1).exc
           /\ lastExc' = "none" =>
                /\ lastRet' = Rest(position)
                /\ position' = Len(payload) /\ eof'
                /\ buffer' = <<>> /\ buffer_offset' = 0
                /\ tpos' = read(Self(0, FALSE), -1).tpos
                /\ engine' = read(Self(0, FALSE), -1).engine ]_vars
  /\ [][ (mode_op = "r" /\ lastOp' = "text_read"
          /\ (lastArg' < 0 \/ lastArg' = None)) =>
           /\ lastExc' = text_read(Self(0, FALSE), -1).exc
           /\ lastExc' = "none" =>
                /\ lastRet' = RemainingText(Self(0, FALSE))
                /\ \E k \in 0..Len(TextOf(payload)) :
                      lastRet' = SubSeq(TextOf(payload), k + 1,
                                        Len(TextOf(payload)))
                /\ text_buffer' = <<>> /\ eof'
                /\ decoder' = text_read(Self(0, FALSE), -1).decoder
                /\ tpos' = text_read(Self(0, FALSE), -1).tpos ]_vars

\* C21 witness: with one byte consumed and one still buffered, read(None)
\* returned the two bytes that remained.
C21_Witness ==
  /\ layer = "binary" /\ tdata = Single /\ chunk_size = MaxChunk
  /\ lastOp = "read" /\ lastArg = None /\ lastExc = "none"
  /\ lastPos = 1 /\ lastRet = <<NL, 2>> /\ position = 3

C23_CompressLevelValidated ==
  (init_exc # "pending" /\ compresslevel \notin 0..9) =>
     init_exc = "ValueError"

\* C24: line iteration is available on text streams only: __aiter__ on a
\* binary stream raises TypeError, and a binary stream yields no lines.
C24_BinaryIterationRejected ==
  /\ lastOp = "aiter" => lastExc = "TypeError"
  /\ lastOp = "anext" => lastExc # "none"

\* What a mode string is made of, whatever the order of its characters.
Count(m, c) == Cardinality({ i \in 1..Len(m) : m[i] = c })
Ops(m) == Cardinality({ i \in 1..Len(m) : m[i] \in {"r", "w", "a", "x"} })
Rejected(m) ==
  \/ Ops(m) # 1
  \/ Count(m, "b") > 1 \/ Count(m, "t") > 1 \/ Count(m, "+") > 1
  \/ (Count(m, "b") > 0 /\ Count(m, "t") > 0)
  \/ \E i \in 1..Len(m) : m[i] \notin {"r", "w", "a", "x", "b", "t", "+"}
Perms(m) == { [i \in 1..Len(m) |-> m[f[i]]] : f \in Permutations(1..Len(m)) }

\* C25: mode parsing depends only on the multiset of characters: a mode
\* string and each of its permutations are both rejected or give the same
\* (operation, binary flag, text flag, plus flag); a string is rejected
\* exactly when it has no or more than one of r/w/a/x, a repeated b, t or +,
\* both b and t, or any other character; the binary constructor also rejects
\* a text flag and the text constructor a binary flag, and a constructor
\* that returns leaves the parsed operation as the stream's mode.
C25_ModeParsing ==
  LET a == _parse_mode_tokens(mode) IN
  /\ (a.err # "none") <=> Rejected(mode)
  /\ \A q \in Perms(mode) :
       LET b == _parse_mode_tokens(q) IN
       /\ (a.err = "none") <=> (b.err = "none")
       /\ a.err = "none" =>
            /\ <<b.op, b.saw_b, b.saw_t, b.plus>>
                 = <<a.op, a.saw_b, a.saw_t, a.plus>>
            /\ a.op \in {"r", "w", "a", "x"}
            /\ a.saw_b = (Count(mode, "b") = 1)
            /\ a.saw_t = (Count(mode, "t") = 1)
            /\ a.plus = (Count(mode, "+") = 1)
  /\ init_exc # "pending" =>
       /\ Rejected(mode) => init_exc = "ValueError"
       /\ (layer = "binary" /\ Count(mode, "t") > 0) => init_exc = "ValueError"
       /\ (layer = "text" /\ Count(mode, "b") > 0) => init_exc = "ValueError"
       /\ init_exc = "none" => mode_op = a.op

\* C25 witness: the binary constructor accepted the mode "b+r".
C25_Witness ==
  /\ layer = "binary" /\ mode = <<"b", "+", "r">> /\ init_exc = "none"
  /\ mode_op = "r" /\ lastOp = "init"

\* C26: with newline=None, for every chunk size, the text delivered by the
\* read calls of a text stream is the decoded payload with every CRLF and
\* every lone CR replaced by one LF: no call raises, what was delivered so
\* far is a prefix of that text, and it is all of it once a read returns
\* empty; a CRLF split between two decoded chunks gives exactly one LF.
C26_UniversalNewlines ==
  (layer = "text" /\ newline = "None" /\ onlyReads) =>
     /\ lastExc \in {"none", "StopAsyncIteration"}
     /\ IsPrefix(got, TextOf(payload))
     /\ (lastOp = "text_read" /\ lastArg # 0 /\ lastRet = <<>>) =>
           got = TextOf(payload)

\* C26 witness: the payload "1 CR LF 2" was decoded in chunks of two bytes,
\* the CR ending the first and the LF starting the second; the reads
\* returned "1 LF 2" and then nothing.
C26_Witness ==
  /\ layer = "text" /\ newline = "None" /\ onlyReads
  /\ tdata = CrLf /\ chunk_size = 2
  /\ lastOp = "text_read" /\ lastArg = 1 /\ lastRet = <<>>
  /\ got = <<1, NL, 2>>

\* The text a stream delivers in its newline mode, the line terminators of
\* that mode, and a returned line that is exactly one line.
ExpectedText ==
  IF newline = "None" THEN TextOf(payload) ELSE DecodeBytes(payload, TRUE).text
EndsLine(line, k) ==
  /\ k >= 1 /\ k <= Len(line)
  /\ CASE newline \in {"None", "\n"} -> line[k] = NL
       [] newline = "\r" -> line[k] = CR
       [] newline = "\r\n" -> k >= 2 /\ line[k - 1] = CR /\ line[k] = NL
       [] OTHER -> line[k] = NL
                   \/ (line[k] = CR /\ ~(k < Len(line) /\ line[k + 1] = NL))
OneLine(line) == \A k \in 1..(Len(line) - 1) : ~EndsLine(line, k)

\* C27: for every chunk size and newline mode, text readline() and line
\* iteration return non-empty lines, each exactly one line of the text that
\* read() delivers: what was returned so far is a prefix of that text, every
\* line ends with the terminator of the mode unless it is the last, and the
\* empty result (the end of the iteration) comes only when all the text was
\* returned; with newline='' a line never ends in a CR whose LF follows.
C27_LinesPartitionText ==
  (layer = "text" /\ onlyReads
   /\ (lastOp = "text_anext"
       \/ (lastOp = "text_readline" /\ lastArg \in {-1, None}))) =>
     /\ IsPrefix(got, ExpectedText)
     /\ lastExc = (IF lastOp = "text_anext" /\ lastRet = <<>>
                   THEN "StopAsyncIteration" ELSE "none")
     /\ lastRet = <<>> => got = ExpectedText
     /\ lastRet # <<>> =>
          /\ OneLine(lastRet)
          /\ EndsLine(lastRet, Len(lastRet)) \/ got = ExpectedText
          /\ (newline = "" /\ lastRet[Len(lastRet)] = CR
              /\ got # ExpectedText) =>
                ExpectedText[Len(got) + 1] # NL

\* C27 witness: newline='' and the payload "1 CR LF 2" decoded in chunks of
\* two bytes; readline() returned "1 CR LF" as one line.
C27_Witness ==
  /\ layer = "text" /\ newline = "" /\ onlyReads
  /\ tdata = CrLf /\ chunk_size = 2
  /\ lastOp = "text_readline" /\ lastArg = -1 /\ lastExc = "none"
  /\ lastRet = <<1, CR, NL>> /\ got = <<1, CR, NL>>

\* C28: the first close() of an entered text stream, in read mode as well
\* as write mode, clears the cookie cache and closes the underlying binary
\* stream: when the call ends, normally or with an error, the binary
\* stream's closed flag is true.
C28_TextCloseClosesBinary ==
  [][ (layer = "text" /\ binary_file = "set" /\ ~t_is_closed
       /\ lastOp' = "text_close") =>
        (t_is_closed' /\ cookie_cache' = <<>> /\ is_closed') ]_vars

ReadOps == {"read", "readline", "peek"}

\* C30: on the read path every failure of the decompression engine (while
\* decompressing a chunk, while continuing into a new member, at the final
\* flush) reaches the caller as BadGzipFile with the engine's error as its
\* cause, and a failure of the transport read as an OSError that is not
\* BadGzipFile; on the write path every failure of the compression engine
\* reaches the caller as an OSError, and an OSError raised by the transport
\* reaches the caller as it was raised.
C30_ErrorClasses ==
  /\ (mode_op = "r" /\ lastErr.origin = "engine") =>
        (lastExc = "BadGzipFile" /\ lastErr.cause = "zlib.error")
  /\ (mode_op = "r" /\ lastOp \in ReadOps /\ lastErr.origin = "transport") =>
        lastExc = "OSError"
  /\ (_writing_mode /\ lastErr.origin = "engine") => lastExc = "OSError"
  /\ (_writing_mode /\ lastErr.origin = "transport"
      /\ lastErr.first = "OSError") =>
        (lastExc = "OSError" /\ lastErr.cause = "none")

\* The first line of the bytes rest: up to and including the first LF, or
\* all of them.
RECURSIVE FirstLine(_)
FirstLine(rest) ==
  IF rest = <<>> THEN <<>>
  ELSE IF Head(rest) = NL THEN <<NL>>
  ELSE <<Head(rest)>> \o FirstLine(Tail(rest))

\* C31: for every chunk size, binary readline() with no limit returns the
\* payload bytes from the position up to and including the next LF, or the
\* remaining ones at the end, and returns no bytes only when the stream is
\* exhausted (transport at its end, nothing buffered), also after a transport
\* chunk that decompresses to no bytes; so the lines returned until the first
\* empty result make up the payload.
C31_ReadlineLines ==
  (lastOp \in {"readline", "pkg_readline"} /\ lastArg = -1
   /\ lastExc = "none" /\ file = "set" /\ ~is_closed) =>
     /\ lastRet = FirstLine(SubSeq(payload, lastPos + 1, Len(payload)))
     /\ lastRet = <<>> => (eof /\ buffer_offset >= Len(buffer))

\* C32: for a stream that begins with a valid gzip header with any optional
\* fields, the header probe gives for every prefix either (unset, incomplete)
\* or (the header's MTIME, complete), and once complete it stays complete
\* with the same mtime for every longer prefix; and for every chunk size the
\* stream's mtime is unset until the whole header was read, is the header's
\* MTIME from then on, and never changes.
C32_HeaderProbe ==
  /\ [](probe # <<>> =>
          /\ probe.res \in { <<None, FALSE>>, <<probe.mt, TRUE>> }
          /\ probe.mtime = IF probe.fed >= probe.hlen THEN probe.mt ELSE None)
  /\ [][ (probe # <<>> /\ probe.res[2]) => probe'.res = probe.res ]_vars
  /\ [][ (probe # <<>> /\ probe.mtime # None) =>
            probe'.mtime = probe.mtime ]_vars

\* C32 witness: a header with extra field, name, comment and header CRC, the
\* extra field holding a zero byte; the probe is complete on a prefix longer
\* than the header, and the stream, read by chunks of two bytes, has its
\* mtime.
C32_Witness ==
  /\ probe # <<>> /\ chunk_size = 2
  /\ probe.data[4] = 30 /\ probe.mt = 257
  /\ SubSeq(probe.data, 11, 14) = <<2, 0, 7, 0>>
  /\ probe.n > probe.hlen /\ probe.res = <<257, TRUE>>
  /\ probe.fed >= probe.hlen /\ probe.mtime = 257

\* C33: when write() fails because the compressor or the transport write
\* raises, the running CRC, the input size and the position are what they
\* were before the call (so that the trailer of a later close() describes
\* the bytes whose writes succeeded).
C33_FailedWriteCountsNothing ==
  [][ (lastOp' = "write" /\ lastExc' # "none"
       /\ lastErr'.origin \in {"engine", "transport"}) =>
         (crc' = crc /\ input_size' = input_size /\ position' = position)
    ]_vars

\* C34: when a transport or decompression error interrupts a binary read
\* (size > 0 or size = -1), the position is unchanged and the bytes that
\* were buffered before the call are still the next bytes of the buffer, so
\* that later reads return them at the offsets tell() reports.
C34_FailedReadLosesNothing ==
  [][ (lastOp' = "read" /\ lastExc' # "none"
       /\ lastErr'.origin \in {"engine", "transport"}) =>
         /\ position' = position
         /\ IsPrefix(SubSeq(buffer, buffer_offset + 1, Len(buffer)),
                     SubSeq(buffer', buffer_offset' + 1, Len(buffer')))
    ]_vars

\* C35: when the stream owns its transport (it opened it, or closefd is
\* set), the first close() ends with the transport's close having been
\* called, also when the final flush of the compressor, the write of the
\* last compressed bytes or the write of the trailer fails.
C35_CloseReleasesTransport ==
  [][ (lastOp' = "close" /\ layer = "binary" /\ ~is_closed /\ file = "set"
       /\ (owns_file \/ closefd)) =>
         tcloses' = tcloses + 1 ]_vars

\* The bytes d a transport received are a header, then body bytes, then at
\* most one trailer, which ends them.
Ordered(d) ==
  \A i \in 1..Len(d) :
     /\ (i <= HdrLen) <=> (d[i].k = "H")
     /\ d[i].k = "Ts" => i = Len(d)
     /\ d[i].k = "Tc" => (i < Len(d) /\ d[i + 1].k = "Ts")

\* C36: the transport of a write-mode stream that was opened once receives
\* the gzip header, then compressed body bytes, then the trailer as its last
\* write; once the stream is closed no operation, entering it again
\* included, writes to a transport or acquires a new one.
C36_NothingAfterClose ==
  /\ []((_writing_mode /\ enters <= 1) => Ordered(tdata))
  /\ [][ (_writing_mode /\ is_closed) =>
            (tdata' = tdata /\ (topen' => topen)) ]_vars

\* C37: when close() is called on a write-mode stream while an earlier
\* close() is suspended in a transport call, the later call returns at once
\* and writes nothing; under every interleaving of close() calls the last
\* block of the compressor and the trailer are written exactly once, the
\* transport is closed at most once, and no call raises.
C37_ConcurrentClose ==
  /\ [](Len(streams) = 1 =>
          /\ CountK(streams[1].tdata, "E") <= 1
          /\ CountK(streams[1].tdata, "Ts") <= 1
          /\ streams[1].tcloses <= 1
          /\ \A t \in DOMAIN running :
               running[t].op = "done" => running[t].stage = "none"
          /\ (streams[1].is_closed /\ streams[1].file = "set"
              /\ \A t \in DOMAIN running : ~InFlight(running[t])) =>
                (CountK(streams[1].tdata, "E") = 1
                 /\ CountK(streams[1].tdata, "Ts") = 1))
  /\ [][ \A t \in DOMAIN running :
           (Len(streams) = 1 /\ ~InFlight(running[t])
            /\ running'[t] # running[t]
            /\ \E u \in DOMAIN running : InFlight(running[u])) =>
              (running'[t] = Returned("none")
               /\ streams'[1].tdata = streams[1].tdata
               /\ streams'[1].tcloses = streams[1].tcloses) ]_vars

\* C37 witness: the second close() has returned while the first is still
\* suspended before the write of the trailer; the last block is on the
\* transport, the trailer is not.
C37_Witness ==
  /\ Len(streams) = 1
  /\ running[1].op = "close" /\ running[1].stage = "trailer"
  /\ running[2] = Returned("none")
  /\ streams[1].input_size > 0
  /\ CountK(streams[1].tdata, "E") = 1 /\ CountK(streams[1].tdata, "Ts") = 0


\* C38: whenever the end-of-file flag of a read-mode stream is set, its
\* buffer holds no unconsumed decompressed bytes, after any sequence of
\* read, readline, peek and seek.
C38_EofMeansDrained ==
  (~_writing_mode /\ file = "set" /\ eof) => buffer_offset = Len(buffer)


\* C39: close() of a read-mode text stream raises a decode error only when
\* the stream's data ends with an incomplete multi-byte sequence; over
\* validly encoded data it never does, however much was read before and
\* wherever the last transport chunk ended.
C39_CloseDecodesCleanly ==
  [][ (layer = "text" /\ ~_writing_mode /\ lastOp' = "text_close"
       /\ lastExc' = "UnicodeDecodeError") =>
        DecodeBytes(payload, FALSE).pending # <<>> ]_vars


\* C40: readline with a negative limit, in binary and in text streams,
\* returns the next full line as readline with no limit does: the line ends
\* with the line terminator unless the stream is exhausted, a binary line is
\* the payload from the position through the next LF, and the result is
\* empty only when the stream is exhausted.
C40_NegativeLimit ==
  LET exhausted == /\ eof /\ buffer_offset >= Len(buffer)
                   /\ (layer = "text" => text_buffer = <<>>)
  IN
  (lastOp \in {"readline", "pkg_readline", "text_readline"}
   /\ lastArg < 0 /\ lastExc = "none" /\ file = "set") =>
     /\ lastRet = <<>> => exhausted
     /\ lastRet # <<>> =>
          (OneLine(lastRet) /\ (EndsLine(lastRet, Len(lastRet)) \/ exhausted))
     /\ layer = "binary" =>
          lastRet = FirstLine(SubSeq(payload, lastPos + 1, Len(payload)))
====
